---- MODULE Spec2Model ----
(***************************************************************************)
(* A model of the APPX packager: the sink layer (Sink.h), the ZIP writer   *)
(* (ZIP.h, ZIP.cpp) and the orchestration of WriteAppx (APPX.cpp, main).   *)
(*                                                                         *)
(* Byte strings are sequences of segments.  A segment of kind "raw" holds  *)
(* literal byte values in its field name; every other kind stands for the  *)
(* bytes [lo, hi) of a source that is identified by kind, name, nums and   *)
(* over (a file's content, an entry's deflate stream, a packed header, the *)
(* bytes a digest or a signature was computed over).                       *)
(* Byte strings are kept in a normal form (adjacent pieces of one source   *)
(* are merged), so two byte strings are equal exactly when they denote the *)
(* same bytes of the same sources.  SHA-256 and CRC-32 are modelled as     *)
(* injective: a digest is the byte string it was computed over.            *)
(***************************************************************************)
EXTENDS Integers, Sequences, FiniteSets, TLC

\* ------------------------------------------------------------------ bounds
\* Largest number of keys in the entry map.
MaxEntries == 3
\* Largest number of Write calls a data callback makes (SpecEntry).
MaxWrites == 4
\* Largest length of an archive name handed to SanitizedFileName (SpecName).
MaxNameLen == 3

\* ------------------------------------------------------- program constants
kSize == 65536
kNotCompressed == -1
Store == 0
Deflate == 8
Z_NO_COMPRESSION == 0
Z_BEST_COMPRESSION == 9
CopyBufferSize == 4096
kFileTime == 34566                                          \* 0x8706
kFileDate == 18210                                          \* 0x4722

\* ------------------------------------------------------------------- names
\* Archive names are sequences of byte values.
NameATxt == <<97, 46, 116, 120, 116>>                       \* a.txt
NameBAppx == <<98, 46, 97, 112, 112, 120>>                  \* b.appx
NameBundleManifest ==      \* AppxMetadata/AppxBundleManifest.xml
    <<65, 112, 112, 120, 77, 101, 116, 97, 100, 97, 116, 97, 47, 65, 112,
      112, 120, 66, 117, 110, 100, 108, 101, 77, 97, 110, 105, 102, 101,
      115, 116, 46, 120, 109, 108>>
NameOtherManifest ==       \* x/AppxBundleManifest.xml
    <<120, 47, 65, 112, 112, 120, 66, 117, 110, 100, 108, 101, 77, 97, 110,
      105, 102, 101, 115, 116, 46, 120, 109, 108>>
NameCodeIntegrity ==       \* AppxMetadata/CodeIntegrity.cat
    <<65, 112, 112, 120, 77, 101, 116, 97, 100, 97, 116, 97, 47, 67, 111,
      100, 101, 73, 110, 116, 101, 103, 114, 105, 116, 121, 46, 99, 97,
      116>>
NameNoExt == <<120, 47, 100>>                               \* x/d
NameDotAppx == <<46, 97, 112, 112, 120>>                    \* .appx
NameBlockMap ==            \* AppxBlockMap.xml
    <<65, 112, 112, 120, 66, 108, 111, 99, 107, 77, 97, 112, 46, 120, 109,
      108>>
NameContentTypes ==        \* [Content_Types].xml
    <<91, 67, 111, 110, 116, 101, 110, 116, 95, 84, 121, 112, 101, 115, 93,
      46, 120, 109, 108>>
NameSignature ==           \* AppxSignature.p7x
    <<65, 112, 112, 120, 83, 105, 103, 110, 97, 116, 117, 114, 101, 46, 112,
      55, 120>>
SuffixBundleManifest ==    \* AppxBundleManifest.xml
    <<65, 112, 112, 120, 66, 117, 110, 100, 108, 101, 77, 97, 110, 105, 102,
      101, 115, 116, 46, 120, 109, 108>>
SuffixAppx == <<46, 97, 112, 112, 120>>                     \* .appx
SuffixOffset == <<45, 111, 102, 102, 115, 101, 116>>        \* -offset
P7xSignature == <<80, 75, 67, 88>>                          \* PKCX

\* std::equal(suffix.rbegin(), suffix.rend(), name.rbegin()) guarded by
\* suffix.size() < name.size(): a proper suffix.
HasProperSuffix(name, suffix) ==
    /\ Len(suffix) < Len(name)
    /\ SubSeq(name, Len(name) - Len(suffix) + 1, Len(name)) = suffix

_IsAPPXFile(inputFileName) == HasProperSuffix(inputFileName, SuffixAppx)

\* ------------------------------------------------------------ byte strings
Seg(kind, name, lo, hi, nums, over) ==
    [kind |-> kind, name |-> name, lo |-> lo, hi |-> hi, nums |-> nums,
     over |-> over]

Raw(bytes) == IF bytes = <<>> THEN <<>>
              ELSE <<Seg("raw", bytes, 0, Len(bytes), <<>>, <<>>)>>

\* The bytes [lo, hi) of a source.
Piece(kind, name, lo, hi, nums, over) ==
    IF hi <= lo THEN <<>> ELSE <<Seg(kind, name, lo, hi, nums, over)>>

SegLen(s) == s.hi - s.lo

RECURSIVE BLen(_)
BLen(b) == IF b = <<>> THEN 0 ELSE SegLen(Head(b)) + BLen(Tail(b))

BAppendSeg(b, s) ==
    IF SegLen(s) = 0 THEN b
    ELSE IF b = <<>> THEN <<s>>
    ELSE LET l == b[Len(b)] IN
         IF l.kind = "raw" /\ s.kind = "raw"
         THEN [b EXCEPT ![Len(b)] =
                  Seg("raw", l.name \o s.name, 0, Len(l.name) + Len(s.name),
                      <<>>, <<>>)]
         ELSE IF /\ l.kind = s.kind /\ l.name = s.name /\ l.nums = s.nums
                 /\ l.over = s.over /\ l.hi = s.lo
         THEN [b EXCEPT ![Len(b)].hi = s.hi]
         ELSE Append(b, s)

RECURSIVE BCat(_, _)
BCat(a, b) == IF b = <<>> THEN a ELSE BCat(BAppendSeg(a, Head(b)), Tail(b))

\* The first k bytes of one segment, and the segment without them.
SegTake(s, k) ==
    IF s.kind = "raw"
    THEN Seg("raw", SubSeq(s.name, 1, k), 0, k, <<>>, <<>>)
    ELSE [s EXCEPT !.hi = s.lo + k]
SegDrop(s, k) ==
    IF s.kind = "raw"
    THEN Seg("raw", SubSeq(s.name, k + 1, Len(s.name)), 0, Len(s.name) - k,
             <<>>, <<>>)
    ELSE [s EXCEPT !.lo = s.lo + k]

RECURSIVE BTake(_, _)
BTake(b, k) ==
    IF k <= 0 \/ b = <<>> THEN <<>>
    ELSE IF SegLen(Head(b)) <= k
         THEN BCat(<<Head(b)>>, BTake(Tail(b), k - SegLen(Head(b))))
         ELSE <<SegTake(Head(b), k)>>

RECURSIVE BDrop(_, _)
BDrop(b, k) ==
    IF k <= 0 \/ b = <<>> THEN b
    ELSE IF SegLen(Head(b)) <= k
         THEN BDrop(Tail(b), k - SegLen(Head(b)))
         ELSE <<SegDrop(Head(b), k)>> \o Tail(b)

\* The bytes at offsets [from, to) of a byte string.
BSlice(b, from, to) == BTake(BDrop(b, from), to - from)

Min(a, b) == IF a <= b THEN a ELSE b

\* ------------------------------------------------------------------ hashes
\* SHA256Hash(): 32 zero bytes.
ZeroHash == [zero |-> TRUE, of |-> <<>>]
\* SHA256Sink::SHA256() / SHA256Hash::DigestFromBytes over the given bytes.
SHA256Of(bytes) == [zero |-> FALSE, of |-> bytes]

\* ----------------------------------------------------- ZIPFileEntry (ZIP.h)
\* strchr(kWhitelist, c) also finds the terminating NUL of kWhitelist.
InWhitelist(c) ==
    \/ c = 0
    \/ c \in 97..122 \/ c \in 65..90 \/ c \in 48..57
    \/ c \in {45, 46, 95, 126, 47}

HexDigit(d) == IF d < 10 THEN 48 + d ELSE 55 + d

RECURSIVE SanitizeBytes(_)
SanitizeBytes(s) ==
    IF s = <<>> THEN <<>>
    ELSE LET c == Head(s) IN
         (IF InWhitelist(c) THEN <<c>>
          ELSE <<37, HexDigit(c \div 16), HexDigit(c % 16)>>)
         \o SanitizeBytes(Tail(s))

SanitizedFileName(fileName) ==
    IF fileName = NameContentTypes THEN fileName ELSE SanitizeBytes(fileName)

ZIPBlock(sha256, compressedSize) ==
    [sha256 |-> sha256, compressedSize |-> compressedSize]

ZIPFileEntry(fileName, compressedSize, uncompressedSize, compressionType, fileRecordHeaderOffset, crc32, blocks, sha256) ==
    [fileName |-> fileName,
     sanitizedFileName |-> SanitizedFileName(fileName),
     compressedSize |-> compressedSize,
     uncompressedSize |-> uncompressedSize,
     compressionType |-> compressionType,
     fileRecordHeaderOffset |-> fileRecordHeaderOffset,
     crc32 |-> crc32,
     blocks |-> blocks,
     sha256 |-> sha256]

\* The constructor overload for stored entries.
ZIPFileEntryStored(fileName, size, fileRecordHeaderOffset, crc32, blocks, sha256) ==
    ZIPFileEntry(fileName, size, size, Store, fileRecordHeaderOffset, crc32,
                 blocks, sha256)

FileRecordHeaderSize(e) == 30 + Len(e.sanitizedFileName)
FileRecordSize(e) == FileRecordHeaderSize(e) + e.compressedSize
DirectoryEntrySize(e) == 46 + Len(e.sanitizedFileName)

\* The bytes WriteFileRecordHeader hands to its sink: the 30 packed bytes,
\* identified by the fields packed into them, then the sanitised name.
FileRecordHeaderBytes(e) ==
    BCat(Piece("lfh", e.sanitizedFileName, 0, 30,
               <<e.compressionType, e.compressedSize, e.uncompressedSize,
                 Len(e.sanitizedFileName), kFileTime, kFileDate>>, e.crc32),
         Raw(e.sanitizedFileName))

\* The bytes WriteDirectoryEntry hands to its sink.
DirectoryEntryBytes(e) ==
    BCat(Piece("cde", e.sanitizedFileName, 0, 46,
               <<e.compressionType, e.compressedSize, e.uncompressedSize,
                 Len(e.sanitizedFileName), e.fileRecordHeaderOffset,
                 kFileTime, kFileDate>>,
               e.crc32),
         Raw(e.sanitizedFileName))

RECURSIVE DirectoryBytes(_)
DirectoryBytes(entries) ==
    IF entries = <<>> THEN <<>>
    ELSE BCat(DirectoryEntryBytes(Head(entries)),
              DirectoryBytes(Tail(entries)))

RECURSIVE SumDirectoryEntrySize(_)
SumDirectoryEntrySize(entries) ==
    IF entries = <<>> THEN 0
    ELSE DirectoryEntrySize(Head(entries))
         + SumDirectoryEntrySize(Tail(entries))

RECURSIVE SumFileRecordSize(_)
SumFileRecordSize(entries) ==
    IF entries = <<>> THEN 0
    ELSE FileRecordSize(Head(entries)) + SumFileRecordSize(Tail(entries))

\* The 98 bytes of the ZIP64 end record, the locator and the classic end
\* record, identified by the four values packed into them.
EndOfCentralDirectoryBytes(offset, entries) ==
    Piece("eocd", <<>>, 0, 56 + 20 + 22,
          <<Len(entries), SumDirectoryEntrySize(entries),
            SumFileRecordSize(entries), offset>>, <<>>)

\* ------------------------------------------------------------ sinks (Sink.h)
\* zipSink = MultiSink(zipRawSink, zipOffsetSink); sink = MultiSink(zipSink,
\* axpcSink).  A sink state z is [file, offset, axpc].
FileSinkWrite(file, bytes) == BCat(file, bytes)
OffsetSinkWrite(offset, bytes) == offset + BLen(bytes)
SHA256SinkWrite(context, bytes) == BCat(context, bytes)

ZipSinkWrite(z, bytes) ==
    [z EXCEPT !.file = FileSinkWrite(z.file, bytes),
              !.offset = OffsetSinkWrite(z.offset, bytes)]

HashedSinkWrite(z, bytes) ==
    LET z1 == ZipSinkWrite(z, bytes)
    IN  [z1 EXCEPT !.axpc = SHA256SinkWrite(z.axpc, bytes)]

\* What zlib's deflate() emits for one DeflateSink::Deflate call.  zl is one
\* admissible behaviour of the library: the number of bytes it emits while
\* consuming input, at a full flush and at the finish.  A full flush with no
\* input since the previous flush is refused by zlib (Z_BUF_ERROR) and emits
\* nothing; the finish always emits the final block.
ZlibEmits(zl, flushMode, dirty, availIn) ==
    CASE flushMode = "Z_NO_FLUSH" -> IF availIn > 0 THEN zl.noflush ELSE 0
      [] flushMode = "Z_FULL_FLUSH" -> IF dirty THEN zl.flush ELSE 0
      [] flushMode = "Z_FINISH" -> zl.finish

\* DeflateSink::Deflate: everything deflate() emits goes to targetSink =
\* MultiSink(dataSink, compressedOffsetSink).
DeflateRun(p, zl, flushMode, availIn) ==
    LET n == ZlibEmits(zl, flushMode, p.dirty, availIn)
        out == Piece("deflate", p.name, p.coff, p.coff + n, <<>>, <<>>)
    IN  [p EXCEPT !.data = BCat(p.data, out),
                  !.coff = OffsetSinkWrite(p.coff, out),
                  !.dirty = IF flushMode = "Z_NO_FLUSH"
                            THEN p.dirty \/ availIn > 0 ELSE FALSE,
                  !.flushEnds = IF flushMode = "Z_FULL_FLUSH" /\ n > 0
                                THEN Append(p.flushEnds, p.coff + n)
                                ELSE p.flushEnds]

DeflateSinkWrite(p, zl, bytes) ==
    LET p1 == [p EXCEPT !.isEmpty = IF BLen(bytes) > 0 THEN FALSE
                                    ELSE p.isEmpty]
    IN  DeflateRun(p1, zl, "Z_NO_FLUSH", BLen(bytes))

DeflateSinkFlush(p, zl) ==
    IF ~p.isEmpty THEN DeflateRun(p, zl, "Z_FULL_FLUSH", 0) ELSE p

DeflateSinkClose(p, zl) ==
    LET p1 == DeflateRun(p, zl, "Z_FINISH", 0)
    IN  [p1 EXCEPT !.finishBytes = p1.coff - p.coff]

\* ---------------------------------------- the pipeline of WriteZIPFileEntry
\* p is the state of every sink WriteZIPFileEntry builds for one entry:
\*   crc        input of crc32Sink                 uoff  (uncompressed) offset
\*   data       the vector behind dataSink         coff  compressedOffsetSink
\*   written, sink, chunks   the ChunkSink         isEmpty, dirty  DeflateSink
\*   flushEnds, finishBytes  history: the offsets reached by the effective
\*                           full flushes, the bytes emitted by Close
\* An inner sink of the ChunkSink is [sha, startOffset, endOffset]: a Chunk
\* on the deflate path, a SHA256Sink (offsets unused, 0) on the store path.
Unset == -1

\* A Chunk whose constructor does not read the offset sink.
NewInnerSinkFromZero(p) ==
    [sha |-> <<>>, startOffset |-> 0,
     endOffset |-> IF p.deflate THEN Unset ELSE 0]

\* The ChunkSink factory: SHA256Sink() or Chunk(deflateSink, offsetSink).
NewInnerSink(p) ==
    IF p.deflate
    THEN [sha |-> <<>>, startOffset |-> p.coff, endOffset |-> Unset]
    ELSE [sha |-> <<>>, startOffset |-> 0, endOffset |-> 0]

NewPipeline(archiveFileName, deflate) ==
    LET p0 == [name |-> archiveFileName, deflate |-> deflate,
               crc |-> <<>>, uoff |-> 0, data |-> <<>>, coff |-> 0,
               written |-> 0, chunks |-> <<>>,
               isEmpty |-> TRUE, dirty |-> FALSE,
               flushEnds |-> <<>>, finishBytes |-> 0]
    IN  [sink |-> NewInnerSink(p0)] @@ p0

\* Chunk::Write (deflate path) or SHA256Sink::Write (store path).
InnerSinkWrite(p, zl, bytes) ==
    LET p1 == [p EXCEPT !.sink.sha = SHA256SinkWrite(p.sink.sha, bytes)]
    IN  IF p.deflate THEN DeflateSinkWrite(p1, zl, bytes) ELSE p1

\* A Chunk::Close that reads the offset before it flushes.
MaybeCloseBeforeFlush(p, zl) ==
    IF p.deflate
    THEN [DeflateSinkFlush(p, zl) EXCEPT !.sink.endOffset = p.coff]
    ELSE p

\* MaybeClose: Chunk has a Close (flush, then read the offset), SHA256Sink
\* has none.
MaybeClose(p, zl) ==
    IF p.deflate
    THEN LET p1 == DeflateSinkFlush(p, zl)
         IN  [p1 EXCEPT !.sink.endOffset = p1.coff]
    ELSE p

\* An EndChunk without the test of written.
EndChunkUnguarded(p, zl) ==
    LET p1 == MaybeClose(p, zl)
        p2 == [p1 EXCEPT !.chunks = Append(p1.chunks, p1.sink)]
    IN  [p2 EXCEPT !.sink = NewInnerSink(p2), !.written = 0]

EndChunk(p, zl) ==
    IF p.written = 0 THEN p
    ELSE LET p1 == MaybeClose(p, zl)
             p2 == [p1 EXCEPT !.chunks = Append(p1.chunks, p1.sink)]
         IN  [p2 EXCEPT !.sink = NewInnerSink(p2), !.written = 0]

RECURSIVE ChunkSinkWrite(_, _, _)
ChunkSinkWrite(p, zl, bytes) ==
    IF BLen(bytes) <= 0 THEN p
    ELSE LET toWrite == Min(kSize - p.written, BLen(bytes))
             p1 == InnerSinkWrite(p, zl, BTake(bytes, toWrite))
             p2 == [p1 EXCEPT !.written = p1.written + toWrite]
             p3 == IF p2.written = kSize THEN EndChunk(p2, zl) ELSE p2
         IN  ChunkSinkWrite(p3, zl, BDrop(bytes, toWrite))

ChunkSinkClose(p, zl) == MaybeClose(EndChunk(p, zl), zl)

\* One Write of the data callback into the MultiSink of its path:
\* store:   crc32Sink, offsetSink, dataSink, chunkSink
\* deflate: chunkSink, uncompressedOffsetSink, crc32Sink
PipelineWrite(p, zl, bytes) ==
    IF p.deflate
    THEN LET p1 == ChunkSinkWrite(p, zl, bytes)
         IN  [p1 EXCEPT !.uoff = OffsetSinkWrite(p1.uoff, bytes),
                        !.crc = BCat(p1.crc, bytes)]
    ELSE LET p1 == [p EXCEPT !.crc = BCat(p.crc, bytes),
                             !.uoff = OffsetSinkWrite(p.uoff, bytes),
                             !.data = BCat(p.data, bytes)]
         IN  ChunkSinkWrite(p1, zl, bytes)

\* chunkSink.Close() and, on the deflate path, deflateSink.Close().
PipelineClose(p, zl) ==
    IF p.deflate THEN DeflateSinkClose(ChunkSinkClose(p, zl), zl)
    ELSE ChunkSinkClose(p, zl)

\* Chunk::CompressedSize.
CompressedSize(chunk) == chunk.endOffset - chunk.startOffset

\* blocks, as collected from chunkSink.Chunks() after the closes.
BlocksOf(p) ==
    [i \in 1..Len(p.chunks) |->
        ZIPBlock(SHA256Of(p.chunks[i].sha),
                 IF p.deflate THEN CompressedSize(p.chunks[i])
                 ELSE kNotCompressed)]

\* A WriteZIPFileEntry that records offset 0 for every entry.
EntryOfPipelineAtZero(p, offset) ==
    ZIPFileEntry(p.name,
                 IF p.deflate THEN p.coff ELSE p.uoff,
                 p.uoff,
                 IF p.deflate THEN Deflate ELSE Store,
                 0, p.crc,
                 [i \in 1..Len(p.chunks) |->
                     ZIPBlock(SHA256Of(p.chunks[i].sha),
                              IF p.deflate
                              THEN p.chunks[i].endOffset
                                   - p.chunks[i].startOffset
                              ELSE kNotCompressed)],
                 ZeroHash)

\* A WriteZIPFileEntry that marks every entry as stored.
EntryOfPipelineStore(p, offset) ==
    ZIPFileEntry(p.name,
                 IF p.deflate THEN p.coff ELSE p.uoff,
                 p.uoff, Store, offset, p.crc,
                 [i \in 1..Len(p.chunks) |->
                     ZIPBlock(SHA256Of(p.chunks[i].sha),
                              IF p.deflate
                              THEN p.chunks[i].endOffset
                                   - p.chunks[i].startOffset
                              ELSE kNotCompressed)],
                 ZeroHash)

\* The ZIPFileEntry WriteZIPFileEntry constructs from a closed pipeline.
EntryOfPipeline(p, offset) ==
    ZIPFileEntry(p.name,
                 IF p.deflate THEN p.coff ELSE p.uoff,
                 p.uoff,
                 IF p.deflate THEN Deflate ELSE Store,
                 offset, p.crc, BlocksOf(p), ZeroHash)

\* The choice of path by the requested level alone.
UsesDeflateByLevel(archiveFileName, compressionLevel) ==
    compressionLevel # Z_NO_COMPRESSION

\* if (_IsAPPXFile(archiveFileName)) compressionLevel = Z_NO_COMPRESSION;
\* the path is the deflate one unless the level is then Z_NO_COMPRESSION.
UsesDeflate(archiveFileName, compressionLevel) ==
    (IF _IsAPPXFile(archiveFileName) THEN Z_NO_COMPRESSION
     ELSE compressionLevel) # Z_NO_COMPRESSION

\* Copy(file, sink): Read fills a 4096-byte buffer until it returns 0.
RECURSIVE Copy(_, _, _, _, _)
Copy(p, zl, fileName, size, pos) ==
    LET read == Min(CopyBufferSize, size - pos)
    IN  IF read = 0 THEN p
        ELSE Copy(PipelineWrite(p, zl,
                      Piece("file", fileName, pos, pos + read, <<>>, <<>>)),
                  zl, fileName, size, pos + read)

\* ------------------------------------------------- bundle manifest (ZIP.h)
RECURSIVE to_string(_)
to_string(n) ==
    IF n < 10 THEN <<48 + n>> ELSE to_string(n \div 10) \o <<48 + (n % 10)>>

\* std::string::find(pattern, pos): the first index >= pos, or -1 (npos).
RECURSIVE Find(_, _, _)
Find(text, pattern, pos) ==
    IF pos + Len(pattern) > Len(text) THEN -1
    ELSE IF SubSeq(text, pos + 1, pos + Len(pattern)) = pattern THEN pos
    ELSE Find(text, pattern, pos + 1)

\* while ((pos = text.find(name, pos)) != npos) text.replace(pos, ...);
RECURSIVE ReplaceFrom(_, _, _, _)
ReplaceFrom(text, pattern, replacement, pos) ==
    LET found == Find(text, pattern, pos)
    IN  IF found = -1 THEN text
        ELSE ReplaceFrom(SubSeq(text, 1, found) \o replacement
                           \o SubSeq(text, found + Len(pattern) + 1,
                                     Len(text)),
                         pattern, replacement, found)

\* manifestText is the content read from the manifest's local file.
RECURSIVE _ManifestContentsAfterPopulatingOffsets(_, _)
_ManifestContentsAfterPopulatingOffsets(manifestText, otherEntries) ==
    IF otherEntries = <<>> THEN manifestText
    ELSE LET entry == Head(otherEntries)
             offsetTemplateName == entry.fileName \o SuffixOffset
             entryDataOffset == entry.fileRecordHeaderOffset
                                + FileRecordHeaderSize(entry)
         IN  _ManifestContentsAfterPopulatingOffsets(
                 ReplaceFrom(manifestText, offsetTemplateName,
                             to_string(entryDataOffset), 0),
                 Tail(otherEntries))

\* ---------------------------------------------------------- XML (XML.cpp)
\* XMLEncodeString returns its argument, or throws when a character is
\* outside a-z A-Z 0-9 . [ ] ( ) space _ - + \ %
XMLAllowed(c) ==
    \/ c \in 97..122 \/ c \in 65..90 \/ c \in 48..57
    \/ c \in {46, 91, 93, 40, 41, 32, 95, 45, 43, 92, 37}

XMLEncodeStringThrows(s) == \E i \in 1..Len(s) : ~XMLAllowed(s[i])

\* std::replace(begin, end, '/', '\\')
FixedFileName(fileName) ==
    [i \in 1..Len(fileName) |-> IF fileName[i] = 47 THEN 92 ELSE fileName[i]]

\* A block map loop without the test of isBundle and _IsAPPXFile.
BlockMapEntriesAll(otherEntries, bundle) == otherEntries

\* The entries WriteAppxBlockMapZIPFileEntry emits a <File> for.
RECURSIVE BlockMapEntries(_, _)
BlockMapEntries(otherEntries, bundle) ==
    IF otherEntries = <<>> THEN <<>>
    ELSE (IF bundle /\ _IsAPPXFile(Head(otherEntries).fileName) THEN <<>>
          ELSE <<Head(otherEntries)>>)
         \o BlockMapEntries(Tail(otherEntries), bundle)

RECURSIVE BlockElementsSize(_)
BlockElementsSize(blocks) ==
    IF blocks = <<>> THEN 0
    ELSE 60 + (IF Head(blocks).compressedSize # kNotCompressed
               THEN 8 + Len(to_string(Head(blocks).compressedSize)) ELSE 0)
         + BlockElementsSize(Tail(blocks))

FileElementSize(entry) ==
    40 + Len(FixedFileName(entry.fileName))
       + Len(to_string(entry.uncompressedSize))
       + Len(to_string(FileRecordHeaderSize(entry)))
       + BlockElementsSize(entry.blocks)

RECURSIVE FileElementsSize(_)
FileElementsSize(entries) ==
    IF entries = <<>> THEN 0
    ELSE FileElementSize(Head(entries)) + FileElementsSize(Tail(entries))

\* The Base64 text of the hashes of the blocks, 44 characters each.
RECURSIVE BlockHashes(_)
BlockHashes(blocks) ==
    IF blocks = <<>> THEN <<>>
    ELSE BCat(Piece("base64", <<>>, 0, 44, <<>>, Head(blocks).sha256.of),
              BlockHashes(Tail(blocks)))

\* One <File> element with its <Block> elements: the name, the Size and
\* LfhSize attributes, the Size attribute of every block, the hashes.
FileElement(entry) ==
    Piece("File", FixedFileName(entry.fileName), 0, FileElementSize(entry),
          <<entry.uncompressedSize, FileRecordHeaderSize(entry)>>
          \o [i \in 1..Len(entry.blocks) |-> entry.blocks[i].compressedSize],
          BlockHashes(entry.blocks))

RECURSIVE FileElements(_)
FileElements(entries) ==
    IF entries = <<>> THEN <<>>
    ELSE <<FileElement(Head(entries))[1]>> \o FileElements(Tail(entries))

BlockMapThrows(otherEntries, bundle) ==
    LET files == BlockMapEntries(otherEntries, bundle)
    IN  \E i \in 1..Len(files) :
            XMLEncodeStringThrows(FixedFileName(files[i].fileName))

BlockMapXmlSize(otherEntries, bundle) ==
    175 + FileElementsSize(BlockMapEntries(otherEntries, bundle)) + 11

\* The body of AppxBlockMap.xml.
BlockMapXml(otherEntries, bundle) ==
    Piece("xml", NameBlockMap, 0, BlockMapXmlSize(otherEntries, bundle),
          <<>>, FileElements(BlockMapEntries(otherEntries, bundle)))

\* The entry WriteAppxBlockMapZIPFileEntry constructs.
BlockMapEntry(offset, otherEntries, bundle) ==
    LET xml == BlockMapXml(otherEntries, bundle)
    IN  ZIPFileEntryStored(NameBlockMap, BLen(xml), offset, xml, <<>>,
                           SHA256Of(xml))

CtAppx ==                  \* application/vnd.ms-appx
    <<97, 112, 112, 108, 105, 99, 97, 116, 105, 111, 110, 47, 118, 110, 100,
      46, 109, 115, 45, 97, 112, 112, 120>>
CtMsDownload ==            \* application/x-msdownload
    <<97, 112, 112, 108, 105, 99, 97, 116, 105, 111, 110, 47, 120, 45, 109,
      115, 100, 111, 119, 110, 108, 111, 97, 100>>
CtPng == <<105, 109, 97, 103, 101, 47, 112, 110, 103>>      \* image/png
CtBundleManifest ==        \* application/vnd.ms-appx.bundlemanifest+xml
    <<97, 112, 112, 108, 105, 99, 97, 116, 105, 111, 110, 47, 118, 110, 100,
      46, 109, 115, 45, 97, 112, 112, 120, 46, 98, 117, 110, 100, 108, 101,
      109, 97, 110, 105, 102, 101, 115, 116, 43, 120, 109, 108>>
CtManifest ==              \* application/vnd.ms-appx.manifest+xml
    <<97, 112, 112, 108, 105, 99, 97, 116, 105, 111, 110, 47, 118, 110, 100,
      46, 109, 115, 45, 97, 112, 112, 120, 46, 109, 97, 110, 105, 102, 101,
      115, 116, 43, 120, 109, 108>>
CtOctetStream ==           \* application/octet-stream
    <<97, 112, 112, 108, 105, 99, 97, 116, 105, 111, 110, 47, 111, 99, 116,
      101, 116, 45, 115, 116, 114, 101, 97, 109>>
ExtAppx == <<97, 112, 112, 120>>
ExtDll == <<100, 108, 108>>
ExtExe == <<101, 120, 101>>
ExtPng == <<112, 110, 103>>
ExtXml == <<120, 109, 108>>

\* sKnownContentTypes.find(extension), kDefaultContentType otherwise.
ContentTypeOf(extension, bundle) ==
    CASE extension = ExtAppx -> CtAppx
      [] extension = ExtDll -> CtMsDownload
      [] extension = ExtExe -> CtMsDownload
      [] extension = ExtPng -> CtPng
      [] extension = ExtXml -> IF bundle THEN CtBundleManifest ELSE CtManifest
      [] OTHER -> CtOctetStream

\* std::string::rfind(c): the last index of c, or -1 (npos).
RECURSIVE RFind(_, _)
RFind(s, c) ==
    IF s = <<>> THEN -1
    ELSE IF s[Len(s)] = c THEN Len(s) - 1
    ELSE RFind(SubSeq(s, 1, Len(s) - 1), c)

\* The elements WriteContentTypesZIPFileEntry emits for otherEntries, in
\* order; written is writtenExtensions.  Both attributes of an element go
\* through XMLEncodeString.
RECURSIVE ContentTypeElements(_, _, _)
ContentTypeElements(otherEntries, bundle, written) ==
    IF otherEntries = <<>> THEN <<>>
    ELSE LET name == Head(otherEntries).sanitizedFileName
             baseNamePos == RFind(name, 47) + 1
             extensionPos == RFind(name, 46) + 1
             hasExtension == extensionPos > baseNamePos
             extension == SubSeq(name, extensionPos + 1, Len(name))
             notWritten == \A i \in 1..Len(written) : written[i] # extension
         IN  IF hasExtension
             THEN (IF notWritten
                   THEN <<[tag |-> "Default", key |-> extension,
                           contentType |->
                               ContentTypeOf(extension, bundle)]>>
                   ELSE <<>>)
                  \o ContentTypeElements(Tail(otherEntries), bundle,
                        IF notWritten THEN Append(written, extension)
                        ELSE written)
             ELSE <<[tag |-> "Override", key |-> name,
                     contentType |-> CtOctetStream]>>
                  \o ContentTypeElements(Tail(otherEntries), bundle, written)

ContentTypesThrows(otherEntries, bundle) ==
    LET elements == ContentTypeElements(otherEntries, bundle, <<>>)
    IN  \E i \in 1..Len(elements) :
            \/ XMLEncodeStringThrows(elements[i].key)
            \/ XMLEncodeStringThrows(elements[i].contentType)

RECURSIVE ContentTypeElementsSize(_)
ContentTypeElementsSize(elements) ==
    IF elements = <<>> THEN 0
    ELSE (IF Head(elements).tag = "Default" THEN 38 ELSE 39)
         + Len(Head(elements).key) + Len(Head(elements).contentType)
         + ContentTypeElementsSize(Tail(elements))

\* The elements as they stand in the text: tag, key and content type.
RECURSIVE ContentTypeElementsText(_)
ContentTypeElementsText(elements) ==
    IF elements = <<>> THEN <<>>
    ELSE Piece(Head(elements).tag, Head(elements).key, 0,
               ContentTypeElementsSize(<<Head(elements)>>), <<>>,
               Raw(Head(elements).contentType))
         \o ContentTypeElementsText(Tail(elements))

\* The body of [Content_Types].xml.
ContentTypesXml(otherEntries, bundle) ==
    Piece("xml", NameContentTypes, 0,
          133 + ContentTypeElementsSize(
                    ContentTypeElements(otherEntries, bundle, <<>>)) + 285,
          <<>>,
          ContentTypeElementsText(
              ContentTypeElements(otherEntries, bundle, <<>>)))

\* The entry WriteContentTypesZIPFileEntry constructs.
ContentTypesEntry(offset, bundle, otherEntries) ==
    LET xml == ContentTypesXml(otherEntries, bundle)
    IN  ZIPFileEntryStored(NameContentTypes, BLen(xml), offset, xml, <<>>,
                           SHA256Of(xml))

\* ------------------------------------------------------------------ inputs
\* The archive names the entry maps are drawn from.
Names == {NameATxt, NameBAppx, NameBundleManifest, NameOtherManifest,
          NameCodeIntegrity}

\* Further entry maps: the archive name that is the suffix .appx itself,
\* next to b.appx; and an archive name without extension, in a directory.
OtherNames == {NameDotAppx, NameBAppx, NameBundleManifest}
PlainNames == {NameNoExt}

\* The sizes the local file behind an archive name may have.
FileSizes(name) ==
    CASE name = NameATxt -> {0, 65537}
      [] name = NameBAppx -> {65536}
      [] name = NameCodeIntegrity -> {131073}
      [] OTHER -> {15}

\* The texts the bundle manifest's local file may hold:
\* empty, and "<b.appx-offset>".
ManifestTexts ==
    {<<>>,
     <<60, 98, 46, 97, 112, 112, 120, 45, 111, 102, 102, 115, 101, 116,
       62>>}

\* The compression levels main passes on (any of -1..-9 deflates alike).
Levels == {Z_NO_COMPRESSION, Z_BEST_COMPRESSION}

\* Admissible behaviours of zlib for one entry: the bytes it emits per
\* deflate() call that consumes input, per effective full flush (at least
\* the 00 00 FF FF marker) and at the finish (at least the final block).
ZlibBehaviours == [noflush : {0, 3}, flush : {5}, finish : {2}]

\* The lengths of the signer's DER output.
DerSizes == {100}

\* The sizes of the Write calls of a data callback (SpecEntry).
WriteSizes == {0, 1, 65535, 65536, 65537}

\* Sequences of at most n distinct elements of S: the iteration orders of
\* the entry maps.
RECURSIVE DistinctSeqs(_, _)
DistinctSeqs(S, n) ==
    IF n = 0 THEN {<<>>}
    ELSE LET shorter == DistinctSeqs(S, n - 1)
             longest == {q \in shorter : Len(q) = n - 1}
         IN  shorter \cup
             {Append(qx[1], qx[2]) :
                 qx \in {rx \in longest \X S :
                            \A i \in 1..Len(rx[1]) : rx[1][i] # rx[2]}}

\* --------------------------------------------------------------- the state
VARIABLES
    pc,                 \* where main / WriteAppx stands
    fileNames,          \* the entry map, as its iteration order of keys
    isBundle,           \* -b
    certPath,           \* TRUE when a signing credential is given
    compressionLevel,   \* -0 .. -9
    manifestInput,      \* content of the bundle manifest's local file
    opened,             \* the output file has been opened
    idx,                \* position of the loop over fileNames
    z,                  \* zipRawSink's file, zipOffsetSink, axpcSink
    zipFileEntries,
    appxBundleManifest, \* the withheld pair (first: archive name)
    digests,            \* APPXDigests
    signedDigests,      \* history: the digests each Sign call was given
    fileSize,           \* history: the size of each local file read
    epc,                \* SpecEntry: "open" while the data callback runs
    ep,                 \* SpecEntry: the pipeline of WriteZIPFileEntry
    ewrites,            \* SpecEntry: Write calls made by the callback
    edelivered,         \* SpecEntry: bytes the callback has delivered
    eentry,             \* SpecEntry: the ZIPFileEntry constructed
    run,                \* SpecTwice: 1 in the first run of main, 2 in the second
    now,                \* SpecTwice: the clock when main started
    previous,           \* SpecTwice: what the first run left behind
    zlibUsed,           \* history: what zlib did with each entry's input
    card,               \* SpecCard: the tokens and the requested slot and key
    signedWith,         \* SpecCard: what SignFromSmartCard returned
    faults,             \* SpecFail: the failures of the environment so far
    rec                 \* SpecRecord: one entry's fields, what the sink got

vars == <<pc, fileNames, isBundle, certPath, compressionLevel, manifestInput,
          opened, idx, z, zipFileEntries, appxBundleManifest, digests,
          signedDigests, fileSize, epc, ep, ewrites, edelivered, eentry,
          run, now, previous, zlibUsed, card, signedWith, faults,
          rec>>

mainVarsButPc == <<fileNames, isBundle, certPath, compressionLevel,
                   manifestInput, opened, idx, z, zipFileEntries,
                   appxBundleManifest, digests, signedDigests, fileSize>>
mainVars == <<pc, fileNames, isBundle, certPath, compressionLevel,
              manifestInput, opened, idx, z, zipFileEntries,
              appxBundleManifest, digests, signedDigests, fileSize>>
entryVars == <<epc, ep, ewrites, edelivered, eentry>>
runVars == <<run, now, previous, zlibUsed>>
unitVars == <<card, signedWith, faults, rec>>

NoEntry == ZIPFileEntry(<<>>, 0, 0, Store, 0, <<>>, <<>>, ZeroHash)
NoFile == [n \in {} |-> 0]

\* APPXDigests digests; every field default-constructed.
NewDigests == [axpc |-> ZeroHash, axcd |-> ZeroHash, axct |-> ZeroHash,
               axbm |-> ZeroHash, axci |-> ZeroHash]

InitWriteAppxState ==
    /\ opened = FALSE
    /\ idx = 1
    /\ z = [file |-> <<>>, offset |-> 0, axpc |-> <<>>]
    /\ zipFileEntries = <<>>
    /\ appxBundleManifest = [first |-> <<>>, second |-> <<>>]
    /\ digests = NewDigests
    /\ signedDigests = <<>>
    /\ fileSize = NoFile

IdleEntry ==
    /\ epc = "idle"
    /\ ep = NewPipeline(<<>>, FALSE)
    /\ ewrites = 0
    /\ edelivered = 0
    /\ eentry = NoEntry

NoOutput == [file |-> <<>>, pc |-> "none"]

\* The first run: the clock reads 0, no output file exists.
FirstRun ==
    /\ run = 1
    /\ now = 0
    /\ previous = NoOutput
    /\ zlibUsed = NoFile

NoCard == [slots |-> <<>>, slotId |-> 0, keyId |-> 0]
NoSignature == [kind |-> "none", slot |-> 0, key |-> 0]

\* An off_t, size_t or uint32_t value hi * 65536 + lo, 0 <= lo < 65536.
Wide(hi, lo) == [hi |-> hi, lo |-> lo]

NoRecord == [nameSize |-> Wide(0, 0), compressedSize |-> Wide(0, 0), uncompressedSize |-> Wide(0, 0), crc32 |-> Wide(0, 0), offset |-> Wide(0, 0), callbackThrows |-> FALSE, threwIn |-> "none", out |-> <<>>]

\* Nothing outside main is running.
IdleUnits ==
    /\ card = NoCard
    /\ signedWith = NoSignature
    /\ faults = {}
    /\ rec = NoRecord

\* An open that keeps what the file holds.
OpenKeeping(file, mode) == file

\* Open(path, "wb"): the file is created empty or truncated.
Open(file, mode) == IF mode = "wb" THEN <<>> ELSE file

\* The local file behind an archive name has one size: the one a read of
\* it has shown, if any.
SizesFor(name) ==
    IF name \in DOMAIN fileSize THEN {fileSize[name]} ELSE FileSizes(name)

\* deflate() is a function of its input: on the input it has been seen to
\* work on, it behaves again as it did.
ZlibFor(name) ==
    IF name \in DOMAIN zlibUsed THEN {zlibUsed[name]} ELSE ZlibBehaviours

\* zlibUsed after the pipeline p was run with behaviour zl.
Recorded(used, p, zl) ==
    IF p.deflate /\ p.uoff > 0 THEN (p.name :> zl) @@ used ELSE used

Init ==
    /\ pc = "main"
    /\ fileNames \in DistinctSeqs(Names, MaxEntries)
                     \cup DistinctSeqs(OtherNames, MaxEntries)
                     \cup DistinctSeqs(PlainNames, MaxEntries)
    /\ isBundle \in BOOLEAN
    /\ certPath \in BOOLEAN
    /\ compressionLevel \in Levels
    /\ manifestInput \in IF isBundle THEN ManifestTexts ELSE {<<>>}
    /\ InitWriteAppxState
    /\ IdleEntry
    /\ FirstRun
    /\ IdleUnits

Keys == {fileNames[i] : i \in 1..Len(fileNames)}

\* ------------------------------------------------ WriteZIPFileEntry, whole
\* The closed pipeline of the overload that reads a local file.
FilePipeline(archiveFileName, size, level, zl) ==
    PipelineClose(
        Copy(NewPipeline(archiveFileName,
                         UsesDeflate(archiveFileName, level)),
             zl, archiveFileName, size, 0),
        zl)

\* The closed pipeline for the bundle manifest: the callback patches the
\* text and hands it over in one Write.
ManifestPipeline(archiveFileName, text, otherEntries, level, zl) ==
    PipelineClose(
        PipelineWrite(NewPipeline(archiveFileName,
                                  UsesDeflate(archiveFileName, level)),
                      zl,
                      Raw(_ManifestContentsAfterPopulatingOffsets(
                              text, otherEntries))),
        zl)

\* entry.WriteFileRecordHeader(sink); sink.Write(data) into the hashed sink.
WriteRecord(zz, entry, data) ==
    HashedSinkWrite(HashedSinkWrite(zz, FileRecordHeaderBytes(entry)), data)

\* ----------------------------------------------------------- main (main.cpp)
\* main returns 1 before opening the output: no inputs, or -b without the
\* key AppxMetadata/AppxBundleManifest.xml.
MainReject ==
    /\ pc = "main"
    /\ \/ fileNames = <<>>
       \/ isBundle /\ NameBundleManifest \notin Keys
    /\ pc' = "exit1"
    /\ UNCHANGED <<fileNames, isBundle, certPath, compressionLevel,
                   manifestInput, opened, idx, z, zipFileEntries,
                   appxBundleManifest, digests, signedDigests, fileSize>>
    /\ UNCHANGED entryVars
    /\ UNCHANGED runVars
    /\ UNCHANGED unitVars

\* A main that opens the output without the test for the bundle manifest.
MainOpenUnchecked ==
    /\ pc = "main"
    /\ fileNames # <<>>
    /\ opened' = TRUE
    /\ z' = [z EXCEPT !.file = Open(z.file, "wb")]
    /\ pc' = "payload"
    /\ UNCHANGED <<fileNames, isBundle, certPath, compressionLevel,
                   manifestInput, idx, zipFileEntries,
                   appxBundleManifest, digests, signedDigests, fileSize>>
    /\ UNCHANGED entryVars
    /\ UNCHANGED runVars
    /\ UNCHANGED unitVars

\* main opens the output file and calls WriteAppx.
MainOpen ==
    /\ pc = "main"
    /\ fileNames # <<>>
    /\ ~isBundle \/ NameBundleManifest \in Keys
    /\ opened' = TRUE
    /\ z' = [z EXCEPT !.file = Open(z.file, "wb")]
    /\ pc' = "payload"
    /\ UNCHANGED <<fileNames, isBundle, certPath, compressionLevel,
                   manifestInput, idx, zipFileEntries,
                   appxBundleManifest, digests, signedDigests, fileSize>>
    /\ UNCHANGED entryVars
    /\ UNCHANGED runVars
    /\ UNCHANGED unitVars

\* A main that starts over after an exception.
MainCatchAndRetry ==
    /\ pc = "threw"
    /\ pc' = "main"
    /\ UNCHANGED <<fileNames, isBundle, certPath, compressionLevel,
                   manifestInput, opened, idx, z, zipFileEntries,
                   appxBundleManifest, digests, signedDigests, fileSize>>
    /\ UNCHANGED entryVars
    /\ UNCHANGED runVars
    /\ UNCHANGED unitVars

\* The exception leaves WriteAppx and main: message, exit code 1.
MainCatch ==
    /\ pc = "threw"
    /\ pc' = "exit1"
    /\ UNCHANGED <<fileNames, isBundle, certPath, compressionLevel,
                   manifestInput, opened, idx, z, zipFileEntries,
                   appxBundleManifest, digests, signedDigests, fileSize>>
    /\ UNCHANGED entryVars
    /\ UNCHANGED runVars
    /\ UNCHANGED unitVars

\* ------------------------------------------------------ WriteAppx (APPX.cpp)
IsWithheld(archiveName) ==
    isBundle /\ HasProperSuffix(archiveName, SuffixBundleManifest)

AfterLoop == IF idx = Len(fileNames)
             THEN (IF isBundle THEN "manifest" ELSE "blockmap")
             ELSE "payload"

\* One iteration of the loop over fileNames that withholds the manifest.
WithholdBundleManifest ==
    /\ pc = "payload"
    /\ IsWithheld(fileNames[idx])
    /\ appxBundleManifest' = [first |-> fileNames[idx],
                              second |-> fileNames[idx]]
    /\ idx' = idx + 1
    /\ pc' = AfterLoop
    /\ UNCHANGED <<fileNames, isBundle, certPath, compressionLevel,
                   manifestInput, opened, z, zipFileEntries, digests,
                   signedDigests, fileSize>>
    /\ UNCHANGED entryVars
    /\ UNCHANGED runVars
    /\ UNCHANGED unitVars

\* One iteration of the loop over fileNames that writes an entry.
WriteCallerEntry ==
    /\ pc = "payload"
    /\ ~IsWithheld(fileNames[idx])
    /\ \E size \in SizesFor(fileNames[idx]), zl \in ZlibFor(fileNames[idx]) :
         LET p == FilePipeline(fileNames[idx], size, compressionLevel, zl)
             entry == EntryOfPipeline(p, z.offset)
         IN  /\ z' = WriteRecord(z, entry, p.data)
             /\ zipFileEntries' = Append(zipFileEntries, entry)
             /\ fileSize' = (fileNames[idx] :> size) @@ fileSize
             /\ zlibUsed' = Recorded(zlibUsed, p, zl)
    /\ idx' = idx + 1
    /\ pc' = AfterLoop
    /\ UNCHANGED <<fileNames, isBundle, certPath, compressionLevel,
                   manifestInput, opened, appxBundleManifest, digests,
                   signedDigests>>
    /\ UNCHANGED entryVars
    /\ UNCHANGED <<run, now, previous>>
    /\ UNCHANGED unitVars

\* std::ifstream manifestInput(manifestInputFileName) and the read up to
\* the end of the stream: the stream is never tested, so a file that
\* cannot be opened or read gives the empty text.
ManifestRead == IF "manifest" \in faults THEN <<>> ELSE manifestInput

\* if (isBundle) { ... }: the bundle manifest, patched and written.
WriteBundleManifestEntry ==
    /\ pc = "manifest"
    /\ \E zl \in ZlibFor(appxBundleManifest.first) :
         LET p == ManifestPipeline(appxBundleManifest.first, ManifestRead,
                                   zipFileEntries, compressionLevel, zl)
             entry == EntryOfPipeline(p, z.offset)
         IN  /\ z' = WriteRecord(z, entry, p.data)
             /\ zipFileEntries' = Append(zipFileEntries, entry)
             /\ zlibUsed' = Recorded(zlibUsed, p, zl)
    /\ pc' = "blockmap"
    /\ UNCHANGED <<fileNames, isBundle, certPath, compressionLevel,
                   manifestInput, opened, idx, appxBundleManifest, digests,
                   signedDigests, fileSize>>
    /\ UNCHANGED entryVars
    /\ UNCHANGED <<run, now, previous>>
    /\ UNCHANGED unitVars

\* WriteAppxBlockMapZIPFileEntry and the assignment of axbm.
WriteAppxBlockMap ==
    /\ pc = "blockmap"
    /\ IF BlockMapThrows(zipFileEntries, isBundle)
       THEN /\ pc' = "threw"
            /\ UNCHANGED <<z, zipFileEntries, digests>>
       ELSE LET blockMap == BlockMapEntry(z.offset, zipFileEntries, isBundle)
            IN  /\ z' = WriteRecord(z, blockMap,
                                    BlockMapXml(zipFileEntries, isBundle))
                /\ digests' = [digests EXCEPT !.axbm = blockMap.sha256]
                /\ zipFileEntries' = Append(zipFileEntries, blockMap)
                /\ pc' = "contenttypes"
    /\ UNCHANGED <<fileNames, isBundle, certPath, compressionLevel,
                   manifestInput, opened, idx, appxBundleManifest,
                   signedDigests, fileSize>>
    /\ UNCHANGED entryVars
    /\ UNCHANGED runVars
    /\ UNCHANGED unitVars

\* ------------------------------------------------- signing (APPX.cpp, Sign.h)
Zeros32 == [i \in 1..32 |-> 0]
TagAPPX == <<65, 80, 80, 88>>
TagAXPC == <<65, 88, 80, 67>>
TagAXCD == <<65, 88, 67, 68>>
TagAXCT == <<65, 88, 67, 84>>
TagAXBM == <<65, 88, 66, 77>>
TagAXCI == <<65, 88, 67, 73>>

\* The 32 bytes of a SHA256Hash.
HashBytes(h) ==
    IF h.zero THEN Raw(Zeros32) ELSE Piece("sha256", <<>>, 0, 32, <<>>, h.of)

\* APPXDigests::Write.
DigestBlob(d) ==
    BCat(BCat(BCat(BCat(BCat(
        BCat(Raw(TagAPPX \o TagAXPC), HashBytes(d.axpc)),
        BCat(Raw(TagAXCD), HashBytes(d.axcd))),
        BCat(Raw(TagAXCT), HashBytes(d.axct))),
        BCat(Raw(TagAXBM), HashBytes(d.axbm))),
        BCat(Raw(TagAXCI), HashBytes(d.axci))), <<>>)

\* GetSignatureBytes(Sign(certPath, digests)): derSize bytes of DER that
\* the signer computed over the digests.
SignatureData(d, derSize) ==
    Piece("der", <<>>, 0, derSize, <<>>, DigestBlob(d))

\* One Write into MultiSink(deflateSink, crc32Sink, offsetSink).
SignatureSinkWrite(p, zl, bytes) ==
    LET p1 == DeflateSinkWrite(p, zl, bytes)
    IN  [p1 EXCEPT !.crc = BCat(p1.crc, bytes),
                   !.uoff = OffsetSinkWrite(p1.uoff, bytes)]

\* The sinks of WriteSignature after the two writes and the Close.
SignaturePipeline(d, derSize, zl) ==
    DeflateSinkClose(
        SignatureSinkWrite(
            SignatureSinkWrite(NewPipeline(NameSignature, TRUE), zl,
                               Raw(P7xSignature)),
            zl, SignatureData(d, derSize)),
        zl)

\* The ZIPFileEntry WriteSignature constructs.
SignatureEntry(p, offset) ==
    ZIPFileEntry(NameSignature, BLen(p.data), p.uoff, Deflate, offset, p.crc,
                 <<>>, ZeroHash)

\* The block "Hash (but do not write) the directory": axcdSink and a copy
\* of zipOffsetSink receive the directory entries and the end records.
DirectoryDigest(offset, entries) ==
    LET directory == DirectoryBytes(entries)
        tmpOffset == OffsetSinkWrite(offset, directory)
    IN  SHA256Of(BCat(directory,
                      EndOfCentralDirectoryBytes(tmpOffset, entries)))

\* "Write the directory": every entry, then the end records at the offset
\* the directory ends at.
WriteDirectory(zz, entries) ==
    LET z1 == ZipSinkWrite(zz, DirectoryBytes(entries))
    IN  ZipSinkWrite(z1, EndOfCentralDirectoryBytes(z1.offset, entries))

\* WriteAppx from WriteContentTypesZIPFileEntry to its end: the content
\* types entry, axct and axpc, the directory digest, the signature when
\* certPath is given, the directory.  XMLEncodeString may throw first.
WriteContentTypesAndDirectory ==
    /\ pc = "contenttypes"
    /\ IF ContentTypesThrows(zipFileEntries, isBundle)
       THEN /\ pc' = "threw"
            /\ UNCHANGED <<z, zipFileEntries, digests, signedDigests,
                           zlibUsed>>
       ELSE \E derSize \in DerSizes, zl \in ZlibFor(NameSignature) :
            LET contentTypes ==
                    ContentTypesEntry(z.offset, isBundle, zipFileEntries)
                z1 == WriteRecord(z, contentTypes,
                                  ContentTypesXml(zipFileEntries, isBundle))
                entries1 == Append(zipFileEntries, contentTypes)
                d1 == [digests EXCEPT !.axct = contentTypes.sha256,
                                      !.axpc = SHA256Of(z1.axpc)]
                d2 == [d1 EXCEPT
                          !.axcd = DirectoryDigest(z1.offset, entries1)]
                sp == SignaturePipeline(d2, derSize, zl)
                signature == SignatureEntry(sp, z1.offset)
                z2 == IF certPath
                      THEN ZipSinkWrite(
                               ZipSinkWrite(z1,
                                   FileRecordHeaderBytes(signature)),
                               sp.data)
                      ELSE z1
                entries2 == IF certPath THEN Append(entries1, signature)
                            ELSE entries1
            IN  /\ z' = WriteDirectory(z2, entries2)
                /\ zipFileEntries' = entries2
                /\ digests' = d2
                /\ signedDigests' = IF certPath
                                    THEN Append(signedDigests, d2)
                                    ELSE signedDigests
                /\ zlibUsed' = IF certPath THEN Recorded(zlibUsed, sp, zl)
                               ELSE zlibUsed
                /\ pc' = "exit0"
    /\ UNCHANGED <<fileNames, isBundle, certPath, compressionLevel,
                   manifestInput, opened, idx, appxBundleManifest,
                   fileSize>>
    /\ UNCHANGED entryVars
    /\ UNCHANGED <<run, now, previous>>
    /\ UNCHANGED unitVars

Next ==
    \/ MainReject
    \/ MainOpen
    \/ WithholdBundleManifest
    \/ WriteCallerEntry
    \/ WriteBundleManifestEntry
    \/ WriteAppxBlockMap
    \/ WriteContentTypesAndDirectory
    \/ MainCatch

Spec == Init /\ [][Next]_vars

\* ---------------------------------------------------------- main, run twice
\* SpecTwice runs main to its end and then once more, later, on the same
\* command line, the same local files and the same signer: what the first
\* run left on disk is still there when the second starts.
InitTwice ==
    /\ Init
    /\ fileNames \in DistinctSeqs(OtherNames, MaxEntries)
                     \cup DistinctSeqs(PlainNames, MaxEntries)

\* main has returned; it is started again.
Rerun ==
    /\ run = 1
    /\ pc \in {"exit0", "exit1"}
    /\ run' = 2
    /\ now' = now + 1
    /\ previous' = [file |-> z.file, pc |-> pc]
    /\ pc' = "main"
    /\ opened' = FALSE
    /\ idx' = 1
    /\ z' = [file |-> z.file, offset |-> 0, axpc |-> <<>>]
    /\ zipFileEntries' = <<>>
    /\ appxBundleManifest' = [first |-> <<>>, second |-> <<>>]
    /\ digests' = NewDigests
    /\ signedDigests' = <<>>
    /\ UNCHANGED <<fileNames, isBundle, certPath, compressionLevel,
                   manifestInput, fileSize, zlibUsed>>
    /\ UNCHANGED entryVars
    /\ UNCHANGED unitVars

NextTwice == Next \/ Rerun

SpecTwice == InitTwice /\ [][NextTwice]_vars

\* ------------------------------------ WriteZIPFileEntry, one Write at a time
\* SpecEntry runs one call of WriteZIPFileEntry whose data callback makes
\* any sequence of Write calls.
EntryNames == {NameATxt, NameBAppx}

InitEntry ==
    /\ pc = "entry"
    /\ fileNames = <<>>
    /\ isBundle = FALSE
    /\ certPath = FALSE
    /\ compressionLevel \in Levels
    /\ manifestInput = <<>>
    /\ InitWriteAppxState
    /\ epc = "open"
    /\ \E name \in EntryNames :
          ep = NewPipeline(name, UsesDeflate(name, compressionLevel))
    /\ ewrites = 0
    /\ edelivered = 0
    /\ eentry = NoEntry
    /\ FirstRun
    /\ IdleUnits

\* The data callback calls sink.Write(size, bytes) with the next bytes.
CallbackWrite ==
    /\ epc = "open"
    /\ ewrites < MaxWrites
    /\ \E size \in WriteSizes, zl \in ZlibBehaviours :
          /\ ep' = PipelineWrite(ep, zl,
                       Piece("file", ep.name, edelivered, edelivered + size,
                             <<>>, <<>>))
          /\ edelivered' = edelivered + size
    /\ ewrites' = ewrites + 1
    /\ UNCHANGED <<epc, eentry>>
    /\ UNCHANGED mainVars
    /\ UNCHANGED runVars
    /\ UNCHANGED unitVars

\* The data callback returns: the closes, the entry, header and data.
CallbackReturn ==
    /\ epc = "open"
    /\ \E zl \in ZlibBehaviours :
          LET p == PipelineClose(ep, zl)
              entry == EntryOfPipeline(p, z.offset)
          IN  /\ ep' = p
              /\ eentry' = entry
              /\ z' = WriteRecord(z, entry, p.data)
    /\ epc' = "closed"
    /\ UNCHANGED <<ewrites, edelivered>>
    /\ UNCHANGED <<pc, fileNames, isBundle, certPath, compressionLevel,
                   manifestInput, opened, idx, zipFileEntries,
                   appxBundleManifest, digests, signedDigests, fileSize>>
    /\ UNCHANGED runVars
    /\ UNCHANGED unitVars

NextEntry == CallbackWrite \/ CallbackReturn

SpecEntry == InitEntry /\ [][NextEntry]_vars

\* ------------------------------------------- SanitizedFileName, one name
\* SpecName constructs one ZIPFileEntry for any archive name: the names the
\* mapping file and the WriteAppx interface admit are arbitrary byte strings.
NameBytes == {0, 10, 32, 37, 47, 97, 126, 233}

\* The byte strings over S of length at most n.
RECURSIVE SeqsUpTo(_, _)
SeqsUpTo(S, n) ==
    IF n = 0 THEN {<<>>}
    ELSE LET shorter == SeqsUpTo(S, n - 1)
         IN  shorter \cup {Append(q, c) : q \in shorter, c \in S}

ArchiveNames == SeqsUpTo(NameBytes, MaxNameLen) \cup {NameContentTypes}

InitName ==
    /\ pc = "name"
    /\ fileNames \in {<<name>> : name \in ArchiveNames}
    /\ isBundle = FALSE
    /\ certPath = FALSE
    /\ compressionLevel = Z_NO_COMPRESSION
    /\ manifestInput = <<>>
    /\ InitWriteAppxState
    /\ IdleEntry
    /\ FirstRun
    /\ IdleUnits

\* ZIPFileEntry(fileName, ...): sanitizedFileName(SanitizedFileName(fileName)).
ConstructEntry ==
    /\ pc = "name"
    /\ eentry' = ZIPFileEntryStored(fileNames[1], 0, 0, <<>>, <<>>, ZeroHash)
    /\ pc' = "named"
    /\ UNCHANGED <<fileNames, isBundle, certPath, compressionLevel,
                   manifestInput, opened, idx, z, zipFileEntries,
                   appxBundleManifest, digests, signedDigests, fileSize>>
    /\ UNCHANGED <<epc, ep, ewrites, edelivered>>
    /\ UNCHANGED runVars
    /\ UNCHANGED unitVars

NextName == ConstructEntry

SpecName == InitName /\ [][NextName]_vars

\* ------------------------------------------------------------ block hashing
Ceil(n, d) == (n + d - 1) \div d

Closed == epc = "closed"

\* The bytes [lo, hi) the callback delivered.
Delivered(lo, hi) == Piece("file", ep.name, lo, hi, <<>>, <<>>)

\* C7: an input of n bytes yields ceil(n / 65536) blocks, block i carries
\* the SHA-256 of bytes [65536 i, min(65536 (i+1), n)) of the input however
\* the callback split its writes, and no sink in Chunks() is one that
\* received no byte.
C7_BlocksHashWindows ==
    Closed =>
        /\ Len(eentry.blocks) = Ceil(edelivered, kSize)
        /\ Len(ep.chunks) = Len(eentry.blocks)
        /\ \A i \in 1..Len(eentry.blocks) :
              /\ eentry.blocks[i].sha256 =
                     SHA256Of(Delivered((i - 1) * kSize,
                                        Min(i * kSize, edelivered)))
              /\ BLen(ep.chunks[i].sha) > 0

\* Three writes, one of them empty, that end exactly on a block boundary
\* of the deflate path.
C7_Witness ==
    /\ Closed
    /\ ep.deflate
    /\ ewrites = 3
    /\ edelivered = kSize
    /\ Len(eentry.blocks) = 1

\* ------------------------------------------------------ blocks of an entry
HasCompressedSize(block) == block.compressedSize # kNotCompressed

SomeBlockSized(e) ==
    \E i \in 1..Len(e.blocks) : HasCompressedSize(e.blocks[i])

EveryBlockSized(e) ==
    \A i \in 1..Len(e.blocks) : HasCompressedSize(e.blocks[i])

RECURSIVE SumCompressedSizes(_)
SumCompressedSizes(blocks) ==
    IF blocks = <<>> THEN 0
    ELSE blocks[1].compressedSize + SumCompressedSizes(Tail(blocks))

Constructed == {zipFileEntries[i] : i \in 1..Len(zipFileEntries)}

CallerEntries == {e \in Constructed : e.fileName \in Keys}

\* C8 as stated: some block sized implies Deflate with every block sized,
\* no block sized implies Store.
C8_AsStated ==
    \A e \in Constructed :
        /\ SomeBlockSized(e) =>
               e.compressionType = Deflate /\ EveryBlockSized(e)
        /\ ~SomeBlockSized(e) => e.compressionType = Store

\* C8: in every ZIPFileEntry constructed, a block with a compressed size
\* implies type Deflate and a compressed size on every block; an entry
\* with at least one block and no compressed size on any is of type Store.
\* An entry without blocks is of either type.
C8_BlocksAgreeWithType ==
    \A e \in Constructed :
        /\ SomeBlockSized(e) =>
               e.compressionType = Deflate /\ EveryBlockSized(e)
        /\ (e.blocks # <<>> /\ ~SomeBlockSized(e)) =>
               e.compressionType = Store

\* A deflated empty file next to a deflated file of three blocks and a
\* stored file of one block.
C8_Witness ==
    /\ \E e \in Constructed :
          /\ e.compressionType = Deflate
          /\ e.uncompressedSize = 0
          /\ e.blocks = <<>>
    /\ \E e \in Constructed :
          e.compressionType = Deflate /\ Len(e.blocks) = 3
    /\ \E e \in Constructed :
          e.compressionType = Store /\ Len(e.blocks) = 1

\* The local file record header of entry e in the output file.
LocalHeaders(e) ==
    {i \in 1..Len(z.file) :
        /\ z.file[i].kind = "lfh"
        /\ z.file[i].name = e.sanitizedFileName}

FinishSizes == {zl.finish : zl \in ZlibBehaviours}

\* C9 as stated: the sizes of the blocks of a deflated caller entry add up
\* to its compressed size.
C9_AsStated ==
    \A e \in CallerEntries :
        e.compressionType = Deflate =>
            SumCompressedSizes(e.blocks) = e.compressedSize

\* C9: for a deflated caller entry the sizes of its blocks add up to the
\* compressed size in its local header less the bytes of the final
\* deflate block, hence to strictly less than the compressed size.
C9_SumIsCompressedSizeLessFinish ==
    \A e \in CallerEntries :
        e.compressionType = Deflate =>
            /\ \A i \in LocalHeaders(e) :
                  z.file[i].nums[2] = e.compressedSize
            /\ LocalHeaders(e) # {}
            /\ e.compressedSize - SumCompressedSizes(e.blocks)
                   \in FinishSizes
            /\ SumCompressedSizes(e.blocks) < e.compressedSize

\* The block map is written and lists a deflated caller entry of two
\* blocks.
C9_Witness ==
    /\ pc = "contenttypes"
    /\ \E e \in CallerEntries :
          /\ e.compressionType = Deflate
          /\ Len(e.blocks) = 2
          /\ SumCompressedSizes(e.blocks) > 0

\* C10: on the deflate path the first block starts at compressed offset 0,
\* each later block starts where the previous one ended, block i ends at
\* the offset the i-th full flush reached, and the bytes of the final
\* Close lie after the last block.
C10_SpansPartitionStream ==
    (Closed /\ ep.deflate) =>
        /\ Len(ep.flushEnds) = Len(ep.chunks)
        /\ \A i \in 1..Len(ep.chunks) :
              /\ ep.chunks[i].startOffset =
                     (IF i = 1 THEN 0 ELSE ep.chunks[i - 1].endOffset)
              /\ ep.chunks[i].endOffset = ep.flushEnds[i]
              /\ eentry.blocks[i].compressedSize =
                     ep.chunks[i].endOffset - ep.chunks[i].startOffset
        /\ ep.finishBytes > 0
        /\ (IF ep.chunks = <<>> THEN 0
            ELSE ep.chunks[Len(ep.chunks)].endOffset) + ep.finishBytes
               = eentry.compressedSize

\* Two windows, the second closed by Close, written in three calls.
C10_Witness ==
    /\ Closed
    /\ ep.deflate
    /\ Len(ep.chunks) = 2
    /\ ewrites = 3
    /\ ep.chunks[2].startOffset > 0

\* ------------------------------------------------------ the output archive
\* main has opened the output and has returned.
Ended == opened /\ pc \in {"exit0", "exit1"}

\* The loop over fileNames and the bundle manifest block are behind.
PayloadWritten == opened /\ pc \in {"blockmap", "contenttypes"}

\* The positions in the output of the segments of one kind.
Positions(kind) == {i \in 1..Len(z.file) : z.file[i].kind = kind}

RECURSIVE NamesOfKind(_, _)
NamesOfKind(bytes, kind) ==
    IF bytes = <<>> THEN <<>>
    ELSE (IF bytes[1].kind = kind THEN <<bytes[1].name>> ELSE <<>>)
         \o NamesOfKind(Tail(bytes), kind)

RECURSIVE SanitizedNames(_)
SanitizedNames(names) ==
    IF names = <<>> THEN <<>>
    ELSE <<SanitizedFileName(names[1])>> \o SanitizedNames(Tail(names))

RECURSIVE NotWithheld(_)
NotWithheld(names) ==
    IF names = <<>> THEN <<>>
    ELSE (IF IsWithheld(names[1]) THEN <<>> ELSE <<names[1]>>)
         \o NotWithheld(Tail(names))

\* The order of records C1 names.
StatedOrder ==
    SanitizedNames(
        NotWithheld(fileNames)
        \o (IF isBundle THEN <<appxBundleManifest.first>> ELSE <<>>)
        \o <<NameBlockMap, NameContentTypes>>
        \o (IF certPath THEN <<NameSignature>> ELSE <<>>))

Occurrences(names, name) ==
    Cardinality({i \in 1..Len(names) : names[i] = name})

\* C2: once the payload is written every key of the entry map has exactly
\* one local file record under its sanitised name, and when WriteAppx is
\* over exactly one central directory entry.
C2_AsStated ==
    /\ PayloadWritten =>
          \A key \in Keys :
              Occurrences(NamesOfKind(z.file, "lfh"),
                          SanitizedFileName(key)) = 1
    /\ Ended =>
          \A key \in Keys :
              Occurrences(NamesOfKind(z.file, "cde"),
                          SanitizedFileName(key)) = 1

EntriesNamed(name) == {e \in Constructed : e.fileName = name}

RecordEnd(e) == e.fileRecordHeaderOffset + FileRecordSize(e)

\* The body bytes of entry e as they stand in the output file.
BodyInFile(e) ==
    BSlice(z.file, e.fileRecordHeaderOffset + FileRecordHeaderSize(e),
           RecordEnd(e))

\* C3: when WriteAppx is over, the bytes fed to axpc are the bytes of the
\* output file from its start through the end of the [Content_Types].xml
\* record, and the axpc digest is their hash.
C3_AsStated ==
    Ended =>
        \E e \in EntriesNamed(NameContentTypes) :
            /\ z.axpc = BTake(z.file, RecordEnd(e))
            /\ digests.axpc = SHA256Of(z.axpc)

RECURSIVE WithoutSignature(_)
WithoutSignature(entries) ==
    IF entries = <<>> THEN <<>>
    ELSE (IF entries[1].fileName = NameSignature THEN <<>>
          ELSE <<entries[1]>>)
         \o WithoutSignature(Tail(entries))

\* C4: when WriteAppx is over, axcd is the hash of the central directory
\* entries of the caller entries, the bundle manifest, AppxBlockMap.xml
\* and [Content_Types].xml followed by the trailer computed for them.
C4_AsStated ==
    Ended =>
        \E e \in EntriesNamed(NameContentTypes) :
            digests.axcd =
                DirectoryDigest(RecordEnd(e),
                                WithoutSignature(zipFileEntries))

\* C5: when WriteAppx is over, axct is the hash of the body bytes written
\* for [Content_Types].xml and axbm the hash of the body bytes written for
\* AppxBlockMap.xml.
C5_AsStated ==
    Ended =>
        /\ \E e \in EntriesNamed(NameContentTypes) :
              digests.axct = SHA256Of(BodyInFile(e))
        /\ \E e \in EntriesNamed(NameBlockMap) :
              digests.axbm = SHA256Of(BodyInFile(e))

\* C6: once the payload is written, axci is the hash of the content of
\* AppxMetadata/CodeIntegrity.cat when the entry map has that key, and 32
\* zero bytes when it has not.
C6_AsStated ==
    (PayloadWritten \/ Ended) =>
        digests.axci =
            (IF NameCodeIntegrity \in Keys
             THEN SHA256Of(Piece("file", NameCodeIntegrity, 0,
                                 fileSize[NameCodeIntegrity], <<>>, <<>>))
             ELSE ZeroHash)

\* ------------------------------------------------------------ entry offsets
\* The number of bytes of the output file before its i-th segment.
OffsetOfPosition(i) == BLen(SubSeq(z.file, 1, i - 1))

\* The positions of the local file headers, in file order.
RECURSIVE HeaderPositions(_)
HeaderPositions(i) ==
    IF i > Len(z.file) THEN <<>>
    ELSE (IF z.file[i].kind = "lfh" THEN <<i>> ELSE <<>>)
         \o HeaderPositions(i + 1)

\* C11: the k-th entry recorded by WriteAppx is the k-th local file
\* header of the output, its fileRecordHeaderOffset is the number of
\* bytes of the output before that header, and the offsets increase
\* strictly in archive order.
C11_OffsetIsBytesWritten ==
    LET headers == HeaderPositions(1)
    IN  /\ Len(headers) = Len(zipFileEntries)
        /\ \A k \in 1..Len(zipFileEntries) :
              /\ z.file[headers[k]].name =
                     zipFileEntries[k].sanitizedFileName
              /\ zipFileEntries[k].fileRecordHeaderOffset =
                     OffsetOfPosition(headers[k])
              /\ k > 1 =>
                     zipFileEntries[k - 1].fileRecordHeaderOffset
                         < zipFileEntries[k].fileRecordHeaderOffset

\* A bundle with two caller entries, the bundle manifest and the block
\* map recorded.
C11_Witness ==
    /\ isBundle
    /\ Len(zipFileEntries) = 4
    /\ zipFileEntries[3].fileName = NameBundleManifest
    /\ zipFileEntries[4].fileName = NameBlockMap
    /\ zipFileEntries[4].fileRecordHeaderOffset > 65536

\* ------------------------------------------------- the trailer, the signature
\* The position of the first central directory entry, 0 if there is none.
FirstDirectoryPosition ==
    IF Positions("cde") = {} THEN 0
    ELSE CHOOSE i \in Positions("cde") : \A j \in Positions("cde") : i <= j

\* C12: when WriteAppx is over the file ends with the trailer; its entry
\* count is the number of central directory entries written, its
\* directory size the number of bytes they take, its directory offset
\* the file offset of the first of them and the locator's offset the file
\* offset of the trailer itself.
C12_AsStated ==
    Ended =>
        /\ Positions("eocd") = {Len(z.file)}
        /\ Positions("cde") # {}
        /\ LET trailer == z.file[Len(z.file)]
               first == OffsetOfPosition(FirstDirectoryPosition)
               end == OffsetOfPosition(Len(z.file))
           IN  /\ trailer.nums[1] = Cardinality(Positions("cde"))
               /\ trailer.nums[2] = end - first
               /\ trailer.nums[3] = first
               /\ trailer.nums[4] = end

\* The last local file header of the output, 0 if there is none.
LastHeaderPosition ==
    IF Positions("lfh") = {} THEN 0
    ELSE CHOOSE i \in Positions("lfh") : \A j \in Positions("lfh") : j <= i

\* What crc32Sink of WriteSignature is fed for a DER output of derSize.
SignatureCrcInput(derSize) ==
    BCat(Raw(P7xSignature), SignatureData(digests, derSize))

\* C13: when WriteAppx is over there is an AppxSignature.p7x record iff
\* signing was requested; it is the last local record, of method Deflate,
\* of uncompressed size 4 plus the DER length, with the CRC of the magic
\* and the DER output; an unsigned non-bundle archive of k caller entries
\* has k + 2 central directory entries.
C13_AsStated ==
    Ended =>
        /\ certPath <=>
               (\E i \in Positions("lfh") : z.file[i].name = NameSignature)
        /\ certPath =>
               /\ LastHeaderPosition # 0
               /\ LET header == z.file[LastHeaderPosition]
                  IN  /\ header.name = NameSignature
                      /\ header.nums[1] = Deflate
                      /\ \E derSize \in DerSizes :
                            /\ header.nums[3] = 4 + derSize
                            /\ header.over = SignatureCrcInput(derSize)
        /\ (~certPath /\ ~isBundle) =>
               Cardinality(Positions("cde")) = Len(fileNames) + 2

\* ------------------------------------------------------ [Content_Types].xml
\* The entries recorded before entry e.
EntriesBefore(e) ==
    SelectSeq(zipFileEntries,
              LAMBDA o : o.fileRecordHeaderOffset < e.fileRecordHeaderOffset)

\* The elements of one tag that [Content_Types].xml, recorded as entry e,
\* holds for the entries before it.
ElementsOf(e, tag) ==
    SelectSeq(ContentTypeElements(EntriesBefore(e), isBundle, <<>>),
              LAMBDA el : el.tag = tag)

\* The extension of a sanitised name: what follows its last '.', when
\* that lies after its last '/'.
HasExtension(name) == RFind(name, 46) > RFind(name, 47)

ExtensionOf(name) == SubSeq(name, RFind(name, 46) + 2, Len(name))

CallerExtensions ==
    {ExtensionOf(SanitizedFileName(key)) :
        key \in {k \in Keys : HasExtension(SanitizedFileName(k))}}

\* C14: when WriteAppx is over [Content_Types].xml is written and its
\* <Default> elements are one per distinct extension of the caller
\* entries, each with the content type of that extension, and no other.
C14_AsStated ==
    Ended =>
        \E e \in EntriesNamed(NameContentTypes) :
            LET defaults == ElementsOf(e, "Default")
            IN  /\ Len(defaults) = Cardinality(CallerExtensions)
                /\ {defaults[i].key : i \in 1..Len(defaults)}
                       = CallerExtensions
                /\ \A i \in 1..Len(defaults) :
                       defaults[i].contentType =
                           ContentTypeOf(defaults[i].key, isBundle)

\* C15: when WriteAppx is over and a caller entry has no extension,
\* [Content_Types].xml is written and holds, for every such entry, one
\* <Override> of the sanitised name with application/octet-stream.
C15_AsStated ==
    (Ended /\ \E key \in Keys : ~HasExtension(SanitizedFileName(key))) =>
        \E e \in EntriesNamed(NameContentTypes) :
            \A key \in Keys :
                ~HasExtension(SanitizedFileName(key)) =>
                    Cardinality(
                        {i \in 1..Len(ElementsOf(e, "Override")) :
                            ElementsOf(e, "Override")[i] =
                                [tag |-> "Override",
                                 key |-> SanitizedFileName(key),
                                 contentType |-> CtOctetStream]}) = 1

\* ------------------------------------------------------------ AppxBlockMap.xml
\* The body of AppxBlockMap.xml in the output file.
BlockMapBodies ==
    {i \in Positions("xml") : z.file[i].name = NameBlockMap}

\* Its <File> elements, in order.
FilesListed == z.file[CHOOSE i \in BlockMapBodies : TRUE].over

EndsWith(name, suffix) ==
    /\ Len(suffix) <= Len(name)
    /\ SubSeq(name, Len(name) - Len(suffix) + 1, Len(name)) = suffix

\* <File> element f lists entry e: its name, Size and LfhSize.
ListsEntry(f, e) ==
    /\ f.kind = "File"
    /\ f.name = FixedFileName(e.fileName)
    /\ f.nums[1] = e.uncompressedSize
    /\ f.nums[2] = 30 + Len(e.sanitizedFileName)

\* files lists exactly the entries of expected, in order.
ListsExactly(files, expected) ==
    /\ Len(files) = Len(expected)
    /\ \A i \in 1..Len(expected) : ListsEntry(files[i], expected[i])

\* C16 as stated: the block map lists, in archive order, the caller
\* entries, in bundle mode without those whose name ends in .appx.
C16_AsStated ==
    BlockMapBodies # {} =>
        ListsExactly(FilesListed,
            SelectSeq(zipFileEntries,
                LAMBDA e : /\ e.fileName \in Keys
                           /\ ~(isBundle /\ EndsWith(e.fileName, SuffixAppx))))

\* C16: the block map lists, in archive order, one <File> per caller
\* entry of the archive, in bundle mode without those whose name ends in
\* .appx and is longer than .appx; it lists no synthesised entry; Size is
\* the uncompressed size and LfhSize 30 plus the sanitised name's length.
C16_FilesAreCallerEntries ==
    BlockMapBodies # {} =>
        /\ Cardinality(BlockMapBodies) = 1
        /\ ListsExactly(FilesListed,
               SelectSeq(zipFileEntries,
                   LAMBDA e : /\ e.fileName \in Keys
                              /\ ~(isBundle /\ _IsAPPXFile(e.fileName))))
        /\ \A i \in 1..Len(FilesListed) :
               FilesListed[i].name \notin
                   {NameBlockMap, NameContentTypes, NameSignature}

\* A bundle of b.appx, a.txt and the manifest: two <File> elements.
C16_Witness ==
    /\ isBundle
    /\ BlockMapBodies # {}
    /\ NameBAppx \in Keys
    /\ NameATxt \in Keys
    /\ Len(FilesListed) = 2
    /\ FilesListed[2].name = FixedFileName(NameBundleManifest)

\* ----------------------------------------- bundle manifest placeholders
\* The bundle manifest's entry, once written, is the one named by
\* appxBundleManifest.first.
ManifestPositions ==
    {i \in 1..Len(zipFileEntries) :
        isBundle /\ zipFileEntries[i].fileName = appxBundleManifest.first}

ManifestWritten == ManifestPositions # {}

ManifestPosition == CHOOSE i \in ManifestPositions : TRUE

\* The entries handed to _ManifestContentsAfterPopulatingOffsets.
PreviouslyWritten == SubSeq(zipFileEntries, 1, ManifestPosition - 1)

\* The text the callback wrote, as fed to the entry's crc32Sink.
PatchedText ==
    LET fed == zipFileEntries[ManifestPosition].crc32
    IN  IF fed = <<>> THEN <<>> ELSE fed[1].name

Placeholder(entry) == entry.fileName \o SuffixOffset

DataOffset(entry) ==
    entry.fileRecordHeaderOffset + 30 + Len(entry.sanitizedFileName)

OccursAt(text, pattern, pos) ==
    /\ pos + Len(pattern) <= Len(text)
    /\ SubSeq(text, pos + 1, pos + Len(pattern)) = pattern

\* text with each placeholder occurrence, read from left to right (the
\* longest name where several start at one place), replaced by the decimal
\* data offset of the entry it names.
RECURSIVE Substituted(_, _, _)
Substituted(text, entries, pos) ==
    IF pos >= Len(text) THEN <<>>
    ELSE LET here == {i \in 1..Len(entries) :
                         OccursAt(text, Placeholder(entries[i]), pos)}
             i == CHOOSE k \in here :
                      \A j \in here : Len(entries[j].fileName)
                                         <= Len(entries[k].fileName)
         IN  IF here = {}
             THEN <<text[pos + 1]>> \o Substituted(text, entries, pos + 1)
             ELSE to_string(DataOffset(entries[i]))
                    \o Substituted(text, entries,
                                   pos + Len(Placeholder(entries[i])))

\* C17 as stated: the text written for the bundle manifest is the
\* manifest text with every occurrence of <name>-offset replaced by the
\* decimal data offset of the entry named <name>, and no placeholder of a
\* previously written entry remains in it.
C17_AsStated ==
    ManifestWritten =>
        /\ PatchedText = Substituted(manifestInput, PreviouslyWritten, 0)
        /\ \A i \in 1..Len(PreviouslyWritten) :
               Find(PatchedText, Placeholder(PreviouslyWritten[i]), 0) = -1

\* -------------------------------------------------------- sanitised names
\* The whitelist [A-Za-z0-9-._~/].
StatedWhitelist == (97..122) \cup (65..90) \cup (48..57) \cup {45, 46, 95, 126, 47}

UpperHex == <<48, 49, 50, 51, 52, 53, 54, 55, 56, 57, 65, 66, 67, 68, 69, 70>>

\* Byte c kept when in the whitelist, else % and two uppercase hex digits.
PercentEncoded(c) ==
    IF c \in StatedWhitelist THEN <<c>>
    ELSE <<37, UpperHex[(c \div 16) + 1], UpperHex[(c % 16) + 1]>>

RECURSIVE PercentEncodedName(_)
PercentEncodedName(name) ==
    IF name = <<>> THEN <<>>
    ELSE PercentEncoded(Head(name)) \o PercentEncodedName(Tail(name))

Named == pc = "named"

\* C18 as stated: the sanitised name of [Content_Types].xml is the name
\* itself; that of any other name is the byte-by-byte percent encoding of
\* the bytes outside [A-Za-z0-9-._~/] and holds whitelist bytes and % only.
C18_AsStated ==
    Named =>
        IF eentry.fileName = NameContentTypes
        THEN eentry.sanitizedFileName = NameContentTypes
        ELSE /\ eentry.sanitizedFileName = PercentEncodedName(eentry.fileName)
             /\ \A i \in 1..Len(eentry.sanitizedFileName) :
                   eentry.sanitizedFileName[i] \in StatedWhitelist \cup {37}

\* ------------------------------------------------------ compression method
\* The number of bytes of the output between the name of the k-th local
\* file header and the next header, or the end of the output.
BodyBytesWritten(k) ==
    LET headers == HeaderPositions(1)
        h == z.file[headers[k]]
        start == OffsetOfPosition(headers[k]) + 30 + h.nums[4]
    IN  (IF k < Len(headers) THEN OffsetOfPosition(headers[k + 1])
         ELSE BLen(z.file)) - start

\* The entries WriteZIPFileEntry wrote: those of the mapping keys.
WrittenFromKeys ==
    {k \in 1..Len(zipFileEntries) : zipFileEntries[k].fileName \in Keys}

StoredAsStated(name) ==
    \/ compressionLevel = 0
    \/ EndsWith(name, SuffixAppx) /\ Len(name) > Len(SuffixAppx)

\* C19: an entry written by WriteZIPFileEntry has method 0 in its header
\* and in its record exactly when the requested level is 0 or its archive
\* name ends in .appx and is longer than .appx, in bundle mode or not;
\* otherwise it has method 8; for a stored entry the compressed size and
\* the uncompressed size both equal the number of body bytes written.
C19_MethodFollowsLevelAndName ==
    \A k \in WrittenFromKeys :
        LET e == zipFileEntries[k]
            h == z.file[HeaderPositions(1)[k]]
        IN  /\ e.compressionType =
                   (IF StoredAsStated(e.fileName) THEN 0 ELSE 8)
            /\ h.nums[1] = e.compressionType
            /\ StoredAsStated(e.fileName) =>
                   /\ e.compressedSize = e.uncompressedSize
                   /\ e.uncompressedSize = BodyBytesWritten(k)
                   /\ h.nums[2] = BodyBytesWritten(k)
                   /\ h.nums[3] = BodyBytesWritten(k)

\* A bundle at level 9: b.appx stored in 65536 bytes, .appx and the
\* manifest deflated.
C19_Witness ==
    /\ isBundle
    /\ compressionLevel = Z_BEST_COMPRESSION
    /\ Len(zipFileEntries) >= 3
    /\ \E i, j, k \in WrittenFromKeys :
          /\ zipFileEntries[i].fileName = NameBAppx
          /\ zipFileEntries[i].compressionType = Store
          /\ BodyBytesWritten(i) = 65536
          /\ zipFileEntries[j].fileName = NameDotAppx
          /\ zipFileEntries[j].compressionType = Deflate
          /\ zipFileEntries[k].fileName = NameBundleManifest
          /\ zipFileEntries[k].compressionType = Deflate

\* ------------------------------------------------------------- two runs
SecondRunOver == run = 2 /\ pc \in {"exit0", "exit1"}

C21_NoManifestNoOutput ==
    (isBundle /\ NameBundleManifest \notin Keys) =>
        /\ pc \in {"main", "exit1"}
        /\ ~opened
        /\ z.file = <<>>
        /\ z.offset = 0
        /\ z.axpc = <<>>
        /\ zipFileEntries = <<>>

\* A bundle whose only manifest-like key is x/AppxBundleManifest.xml: main
\* has returned 1.
C21_Witness ==
    /\ isBundle
    /\ NameOtherManifest \in Keys
    /\ NameATxt \in Keys
    /\ NameBundleManifest \notin Keys
    /\ pc = "exit1"

\* ------------------------------------------ order of placeholder filling
\* The orderings of the entries of a list.
Orderings(entries) ==
    LET n == Len(entries)
        bijections == {f \in [1..n -> 1..n] :
                          \A i, j \in 1..n : i # j => f[i] # f[j]}
    IN  {[i \in 1..n |-> entries[f[i]]] : f \in bijections}

\* C28 as stated: whatever the order in which the previously written
\* entries are processed, _ManifestContentsAfterPopulatingOffsets returns
\* the same text, the one in which every placeholder <name>-offset stands
\* replaced by the data offset of the entry named exactly <name>.
C28_AsStated ==
    ManifestWritten =>
        \A ordered \in Orderings(PreviouslyWritten) :
            /\ _ManifestContentsAfterPopulatingOffsets(manifestInput, ordered)
                   = PatchedText
            /\ PatchedText
                   = Substituted(manifestInput, PreviouslyWritten, 0)

\* ------------------------------------------------------ SignFromSmartCard
\* SpecCard runs one call of SignFromSmartCard(modulePath, slotId, keyId,
\* piv_pin, digests) over the tokens the PKCS#11 module lists.  A slot is
\* its id, the first bytes of the ids of its keys in enumeration order
\* (0: a key without id) and whether the key the code settles on yields
\* a private key that matches the slot's first certificate.
MaxKeys == 2

SlotIds == {0, 1}
KeyIds == {0, 1, 2}

Slots == [id : SlotIds, keys : SeqsUpTo(KeyIds, MaxKeys), usable : BOOLEAN]

\* Slot ids are unique; at most two slots hold a token.
SlotLists == {<<>>} \cup {<<s>> : s \in Slots} \cup {<<s, t>> : s \in {u \in Slots : u.id = 0}, t \in {u \in Slots : u.id = 1}} \cup {<<t, s>> : s \in {u \in Slots : u.id = 0}, t \in {u \in Slots : u.id = 1}}

InitCard ==
    /\ pc = "card"
    /\ fileNames = <<>>
    /\ isBundle = FALSE
    /\ certPath = TRUE
    /\ compressionLevel = Z_NO_COMPRESSION
    /\ manifestInput = <<>>
    /\ InitWriteAppxState
    /\ IdleEntry
    /\ FirstRun
    /\ card \in [slots : SlotLists, slotId : {0}, keyId : {1}]
    /\ signedWith = NoSignature
    /\ faults = {}
    /\ rec = NoRecord

\* A key search that ends without a key when no id matches.
RECURSIVE FindKeyOrNone(_, _, _)
FindKeyOrNone(keys, keyId, i) == IF i > Len(keys) THEN 0 ELSE IF keys[i] # 0 /\ keys[i] = keyId THEN i ELSE FindKeyOrNone(keys, keyId, i + 1)

\* PKCS11_KEY* k = nullptr; for (i < nbKeys) { k = &keys[i];
\* if (k->id && k->id[0] == keyId) break; }   0 stands for nullptr.
RECURSIVE FindKey(_, _, _)
FindKey(keys, keyId, i) == IF i > Len(keys) THEN Len(keys) ELSE IF keys[i] # 0 /\ keys[i] = keyId THEN i ELSE FindKey(keys, keyId, i + 1)

\* The loop over the tokens: slots with another id are skipped, then
\* slots without key, then slots whose key gives no matching private key.
RECURSIVE SearchTokens(_, _, _, _)
SearchTokens(slots, slotId, keyId, s) ==
    IF s > Len(slots) THEN NoSignature
    ELSE LET k == FindKey(slots[s].keys, keyId, 1)
         IN IF slots[s].id # slotId \/ k = 0 \/ ~slots[s].usable
            THEN SearchTokens(slots, slotId, keyId, s + 1)
            ELSE [kind |-> "signed", slot |-> s, key |-> k]

SignFromSmartCard ==
    /\ pc = "card"
    /\ pc' = "carded"
    /\ signedWith' = SearchTokens(card.slots, card.slotId, card.keyId, 1)
    /\ UNCHANGED <<fileNames, isBundle, certPath, compressionLevel,
                   manifestInput, opened, idx, z, zipFileEntries,
                   appxBundleManifest, digests, signedDigests, fileSize,
                   card, faults, rec>>
    /\ UNCHANGED entryVars
    /\ UNCHANGED runVars

NextCard == SignFromSmartCard

SpecCard == InitCard /\ [][NextCard]_vars

\* C30: a signature is produced only with a key of the token in the
\* requested slot whose id starts with the requested key id; when the
\* token holds no such key, no signature is produced.
C30_AsStated ==
    pc = "carded" =>
        /\ signedWith.kind = "signed" =>
              /\ card.slots[signedWith.slot].id = card.slotId
              /\ card.slots[signedWith.slot].keys[signedWith.key] = card.keyId
        /\ (\A s \in 1..Len(card.slots) : \A k \in 1..Len(card.slots[s].keys) : card.slots[s].id = card.slotId => card.slots[s].keys[k] # card.keyId) => signedWith.kind = "none"

\* The part of C30 the code keeps: the key used is of the requested slot.
C30_RequestedSlotOnly ==
    (pc = "carded" /\ signedWith.kind = "signed") =>
        card.slots[signedWith.slot].id = card.slotId

\* --------------------------------------------------------- stored names
\* SpecReserved runs main on entry maps that may hold a key equal to the
\* name of an entry WriteAppx adds itself.
ReservedNames == {NameBlockMap, NameBundleManifest}

InitReserved ==
    /\ pc = "main"
    /\ fileNames \in DistinctSeqs(ReservedNames, MaxEntries)
    /\ isBundle \in BOOLEAN
    /\ certPath \in BOOLEAN
    /\ compressionLevel \in Levels
    /\ manifestInput \in IF isBundle THEN ManifestTexts ELSE {<<>>}
    /\ InitWriteAppxState
    /\ IdleEntry
    /\ FirstRun
    /\ IdleUnits

SpecReserved == InitReserved /\ [][Next]_vars

\* The names of the entries WriteAppx adds itself.
SynthesisedNames == {NameBlockMap, NameContentTypes, NameSignature}

\* C29: the entries recorded for the central directory have pairwise
\* different stored names; in particular no entry WriteAppx adds itself
\* has the stored name of an entry written for a key of the entry map.
C29_AsStated ==
    \A i, j \in 1..Len(zipFileEntries) :
        i # j => zipFileEntries[i].sanitizedFileName # zipFileEntries[j].sanitizedFileName

\* The part of C29 about the keys alone: different archive names are
\* stored under different names.
C29_KeysStoredApart ==
    \A i, j \in 1..Len(zipFileEntries) :
        (i # j /\ zipFileEntries[i].fileName \notin SynthesisedNames) => zipFileEntries[i].sanitizedFileName # zipFileEntries[j].sanitizedFileName

\* In SpecName: no other archive name is stored under the name the
\* constructed entry got.
C29_SanitisedApart ==
    Named => \A other \in ArchiveNames :
                 other # fileNames[1] => SanitizedFileName(other) # eentry.sanitizedFileName

\* ------------------------------------------------- failures of the environment
\* SpecFail runs main in an environment in which the output cannot be
\* opened, a local file cannot be read to its end, the bundle manifest's
\* local file cannot be read, the output cannot be written or cannot be
\* closed.  faults holds "manifest" when the bundle manifest's local file
\* is unreadable, and collects the failures that have happened.
FailNames == {NameATxt, NameBundleManifest}

InitFail ==
    /\ pc = "main"
    /\ fileNames \in DistinctSeqs(FailNames, MaxEntries)
    /\ isBundle \in BOOLEAN
    /\ certPath \in BOOLEAN
    /\ compressionLevel \in Levels
    /\ manifestInput \in IF isBundle THEN ManifestTexts ELSE {<<>>}
    /\ InitWriteAppxState
    /\ IdleEntry
    /\ FirstRun
    /\ card = NoCard
    /\ signedWith = NoSignature
    /\ rec = NoRecord
    /\ faults \in IF isBundle THEN {{}, {"manifest"}} ELSE {{}}

\* Open(appxPath, "wb") throws ErrnoException.
OpenFailure ==
    /\ pc = "main"
    /\ fileNames # <<>>
    /\ ~isBundle \/ NameBundleManifest \in Keys
    /\ pc' = "threw"
    /\ faults' = faults \cup {"open"}
    /\ UNCHANGED <<card, signedWith, rec>>
    /\ UNCHANGED mainVarsButPc
    /\ UNCHANGED entryVars
    /\ UNCHANGED runVars

\* How an exception leaves the data callback of WriteZIPFileEntry after
\* the callback has delivered the given number of bytes.  On the deflate
\* path the unwinding destroys deflateSink, whose destructor traps when
\* deflateEnd does not return Z_OK: deflateEnd returns Z_DATA_ERROR for a
\* stream that has taken input and was not finished, and for a raw stream
\* that was never used it returns Z_OK or, before zlib 1.2.12, Z_DATA_ERROR.
CallbackThrowOutcomes(deflate, delivered) ==
    IF ~deflate THEN {"threw"}
    ELSE IF delivered > 0 THEN {"trapped"}
    ELSE {"threw", "trapped"}

\* The offsets at which Copy can meet a read error: before the first
\* buffer (or Open fails), or after a full buffer.
ReadErrorOffsets(size) == {n \in {0, CopyBufferSize} : n = 0 \/ n < size}

\* One iteration of the loop over fileNames in which Open or Read of the
\* local file throws.
ReadFailure ==
    /\ pc = "payload"
    /\ ~IsWithheld(fileNames[idx])
    /\ \E size \in SizesFor(fileNames[idx]) :
         \E delivered \in ReadErrorOffsets(size) :
           pc' \in CallbackThrowOutcomes(
                       UsesDeflate(fileNames[idx], compressionLevel),
                       delivered)
    /\ faults' = faults \cup {"read"}
    /\ UNCHANGED <<card, signedWith, rec>>
    /\ UNCHANGED mainVarsButPc
    /\ UNCHANGED entryVars
    /\ UNCHANGED runVars

\* An exception is on its way out of main; the unwinding destroys appx,
\* fclose fails and FileDeleter throws from the destructor: std::terminate.
CloseFailure ==
    /\ pc = "threw"
    /\ opened
    /\ pc' = "aborted"
    /\ faults' = faults \cup {"close"}
    /\ UNCHANGED <<card, signedWith, rec>>
    /\ UNCHANGED mainVarsButPc
    /\ UNCHANGED entryVars
    /\ UNCHANGED runVars

\* The start of data[] in WriteFileRecordHeader, up to the compression
\* type: the bytes that do not depend on the entry's data.
HeaderStart(archiveFileName, level) ==
    Raw(<<80, 75, 3, 4, 20, 0, 0, 0,
          IF UsesDeflate(archiveFileName, level) THEN Deflate ELSE Store, 0>>)

\* A Write on sink = MultiSink(MultiSink(zipRawSink, zipOffsetSink),
\* axpcSink) with the members of zipSink in the other order.
FailedSinkWriteOffsetFirst(zz, bytes, accepted) ==
    [zz EXCEPT !.offset = OffsetSinkWrite(zz.offset, bytes),
               !.file = FileSinkWrite(zz.file, BTake(bytes, accepted))]

\* A Write on sink = MultiSink(MultiSink(zipRawSink, zipOffsetSink),
\* axpcSink) in which fwrite accepts only the first bytes: head.Write
\* throws, tail.Write is not reached, in either MultiSink.
FailedSinkWrite(zz, bytes, accepted) ==
    [zz EXCEPT !.file = FileSinkWrite(zz.file, BTake(bytes, accepted))]

\* The byte counts fwrite may accept before it fails.
AcceptedCounts == {0, 10}

\* One iteration of the loop over fileNames in which the write of the
\* local file header to the output fails within its first ten bytes.
WriteFailure ==
    /\ pc = "payload"
    /\ ~IsWithheld(fileNames[idx])
    /\ \E accepted \in AcceptedCounts :
         z' = FailedSinkWrite(z, HeaderStart(fileNames[idx], compressionLevel), accepted)
    /\ pc' = "threw"
    /\ faults' = faults \cup {"write"}
    /\ UNCHANGED <<fileNames, isBundle, certPath, compressionLevel,
                   manifestInput, opened, idx, zipFileEntries,
                   appxBundleManifest, digests, signedDigests, fileSize>>
    /\ UNCHANGED <<card, signedWith, rec>>
    /\ UNCHANGED entryVars
    /\ UNCHANGED runVars

NextFail == Next \/ OpenFailure \/ ReadFailure \/ WriteFailure \/ CloseFailure

SpecFail == InitFail /\ [][NextFail]_vars

\* main has ended: by a return, by the trap of ~DeflateSink, or by
\* std::terminate.
MainEnded == pc \in {"exit0", "exit1", "trapped", "aborted"}

\* C22: whatever step fails, main ends by returning 1: it does not return
\* 0 after a failure and it does not end by a trap or an abort.
C22_AsStated ==
    /\ pc \notin {"trapped", "aborted"}
    /\ (faults # {} /\ MainEnded) => pc = "exit1"

\* The part of C22 the code keeps: a run in which a step failed never
\* returns 0 unless the only failure is the unread bundle manifest.
C22_NoSuccessAfterFailure ==
    (faults \ {"manifest"} # {}) => pc # "exit0"

\* C27: in bundle mode, when the bundle manifest's local file cannot be
\* read, WriteAppx throws and no bundle manifest entry is written.
C27_AsStated ==
    ("manifest" \in faults /\ pc \notin {"main", "payload", "manifest"}) =>
        /\ pc \in {"threw", "exit1", "aborted", "trapped"}
        /\ \A i \in 1..Len(zipFileEntries) :
               zipFileEntries[i].fileName # appxBundleManifest.first

\* ------------------------------------------------------------------ sinks
\* WriteAppx is in its payload loop or writes an entry of its own.
EntryPhases == {"payload", "manifest", "blockmap", "contenttypes"}

\* C26: as long as every Write has completed, the offset counter is the
\* number of bytes delivered to the file sink and, while entries are being
\* written, the bytes hashed for axpc are the bytes delivered to the file
\* sink; a Write that fails in the file sink reaches neither the offset
\* counter nor the axpc hash, the members that follow it.
C26_SinksAgree ==
    opened =>
        /\ "write" \notin faults =>
              /\ z.offset = BLen(z.file)
              /\ pc \in EntryPhases => z.axpc = z.file
        /\ "write" \in faults =>
              /\ z.offset = BLen(z.axpc)
              /\ z.axpc = BTake(z.file, z.offset)

\* A record was written completely and the next header write failed after
\* ten bytes.
C26_Witness ==
    /\ "write" \in faults
    /\ z.offset > 0
    /\ BLen(z.file) = z.offset + 10

\* Two records are written and the block map is next.
C26_WitnessCompleted ==
    /\ faults = {}
    /\ pc = "blockmap"
    /\ Len(zipFileEntries) = 2
    /\ z.offset > 0

\* --------------------------------------------------- packing (Encode.h, ZIP.h)
\* SpecRecord runs the end of one WriteZIPFileEntry and the later
\* WriteDirectoryEntry of its entry on field values of the full width of
\* off_t, size_t and std::uint32_t (LP64).  rec.out is what the sink has
\* been given by this entry.
WideLess(x, y) == x.hi < y.hi \/ (x.hi = y.hi /\ x.lo < y.lo)

\* std::numeric_limits<TTarget>::max() and min() of uint16_t and uint32_t.
MaxOf(bits) == IF bits = 16 THEN Wide(0, 65535) ELSE Wide(65535, 65535)
MinOf(bits) == Wide(0, 0)

\* A check that lets every value pass.
ThrowsNever(x, bits) == FALSE

\* RangeChecker<TTarget>::Check(x) throws std::range_error.
CheckThrows(x, bits) == WideLess(MaxOf(bits), x) \/ WideLess(x, MinOf(bits))

\* static_cast<std::uint8_t>(static_cast<uintN_t>(x) >> (8 * i)).
ByteOf(x, i) == IF i < 2 THEN (x.lo \div (IF i = 0 THEN 1 ELSE 256)) % 256 ELSE ((x.hi % 65536) \div (IF i = 2 THEN 1 ELSE 256)) % 256

\* FB_BYTES_2_LE(x), FB_BYTES_4_LE(x): the bytes of the array literal.
FB_BYTES_LE(x, bits) == IF bits = 16 THEN <<ByteOf(x, 0), ByteOf(x, 1)>> ELSE <<ByteOf(x, 0), ByteOf(x, 1), ByteOf(x, 2), ByteOf(x, 3)>>

\* A field of a record: its value and the width of its target type.
Field(x, bits) == [x |-> x, bits |-> bits]

RECURSIVE PackedBytes(_)
PackedBytes(fields) == IF fields = <<>> THEN <<>> ELSE FB_BYTES_LE(Head(fields).x, Head(fields).bits) \o PackedBytes(Tail(fields))

\* The initialisation of std::uint8_t data[] throws at its first field
\* whose check throws.
PackThrows(fields) == \E i \in 1..Len(fields) : CheckThrows(fields[i].x, fields[i].bits)

kFileExtractVersion == 20
kArchiverVersion == 45

\* The fields of data[] in WriteFileRecordHeader.
FileRecordHeaderFields(r) ==
    <<Field(Wide(1027, 19280), 32), Field(Wide(0, kFileExtractVersion), 16),
      Field(Wide(0, 0), 16), Field(Wide(0, Deflate), 16),
      Field(Wide(0, kFileTime), 16), Field(Wide(0, kFileDate), 16),
      Field(r.crc32, 32), Field(r.compressedSize, 32),
      Field(r.uncompressedSize, 32), Field(r.nameSize, 16),
      Field(Wide(0, 0), 16)>>

\* The fields of data[] in WriteDirectoryEntry.
DirectoryEntryFields(r) ==
    <<Field(Wide(513, 19280), 32), Field(Wide(0, kArchiverVersion), 16),
      Field(Wide(0, kFileExtractVersion), 16), Field(Wide(0, 0), 16),
      Field(Wide(0, Deflate), 16), Field(Wide(0, kFileTime), 16),
      Field(Wide(0, kFileDate), 16), Field(r.crc32, 32),
      Field(r.compressedSize, 32), Field(r.uncompressedSize, 32),
      Field(r.nameSize, 16), Field(Wide(0, 0), 16), Field(Wide(0, 0), 16),
      Field(Wide(0, 0), 16), Field(Wide(0, 0), 16), Field(Wide(0, 0), 32),
      Field(r.offset, 32)>>

\* Values around the limits of the 16-bit and the 32-bit fields.
NameSizes == {Wide(0, 0), Wide(0, 258), Wide(0, 65535), Wide(1, 0)}
FieldSizes == {Wide(0, 0), Wide(0, 65535), Wide(1, 2), Wide(65535, 65535), Wide(65536, 0)}
CRCs == {Wide(0, 0), Wide(4660, 22136), Wide(65535, 65535)}

InitRecord ==
    /\ pc = "record"
    /\ fileNames = <<>>
    /\ isBundle = FALSE
    /\ certPath = FALSE
    /\ compressionLevel = Z_BEST_COMPRESSION
    /\ manifestInput = <<>>
    /\ InitWriteAppxState
    /\ IdleEntry
    /\ FirstRun
    /\ card = NoCard
    /\ signedWith = NoSignature
    /\ faults = {}
    /\ rec \in [nameSize : NameSizes, compressedSize : FieldSizes, uncompressedSize : FieldSizes, crc32 : CRCs, offset : FieldSizes, callbackThrows : BOOLEAN, threwIn : {"none"}, out : {<<>>}]

\* A data callback that hands its bytes to the sink of the archive.
DataCallbackUnbuffered ==
    /\ pc = "record"
    /\ pc' = IF rec.callbackThrows THEN "threw" ELSE "produced"
    /\ rec' = [rec EXCEPT !.threwIn = IF rec.callbackThrows THEN "callback" ELSE "none", !.out = Append(rec.out, [kind |-> "data", size |-> rec.compressedSize])]
    /\ UNCHANGED <<card, signedWith, faults>>
    /\ UNCHANGED mainVarsButPc
    /\ UNCHANGED entryVars
    /\ UNCHANGED runVars

\* dataCallback(sink) and the closes: the data go to the vector data; the
\* callback may throw.
DataCallback ==
    /\ pc = "record"
    /\ pc' = IF rec.callbackThrows THEN "threw" ELSE "produced"
    /\ rec' = [rec EXCEPT !.threwIn = IF rec.callbackThrows THEN "callback" ELSE "none"]
    /\ UNCHANGED <<card, signedWith, faults>>
    /\ UNCHANGED mainVarsButPc
    /\ UNCHANGED entryVars
    /\ UNCHANGED runVars

\* entry.WriteFileRecordHeader(sink); sink.Write(data.size(), data.data()).
WriteFileRecord ==
    /\ pc = "produced"
    /\ IF PackThrows(FileRecordHeaderFields(rec))
       THEN /\ pc' = "threw"
            /\ rec' = [rec EXCEPT !.threwIn = "header"]
       ELSE /\ pc' = "recorded"
            /\ rec' = [rec EXCEPT !.out = rec.out \o <<[kind |-> "lfh", bytes |-> PackedBytes(FileRecordHeaderFields(rec))], [kind |-> "name", size |-> rec.nameSize], [kind |-> "data", size |-> rec.compressedSize]>>]
    /\ UNCHANGED <<card, signedWith, faults>>
    /\ UNCHANGED mainVarsButPc
    /\ UNCHANGED entryVars
    /\ UNCHANGED runVars

\* entry.WriteDirectoryEntry(sink).
WriteDirectoryEntry ==
    /\ pc = "recorded"
    /\ IF PackThrows(DirectoryEntryFields(rec))
       THEN /\ pc' = "threw"
            /\ rec' = [rec EXCEPT !.threwIn = "directory"]
       ELSE /\ pc' = "listed"
            /\ rec' = [rec EXCEPT !.out = rec.out \o <<[kind |-> "cde", bytes |-> PackedBytes(DirectoryEntryFields(rec))], [kind |-> "name", size |-> rec.nameSize]>>]
    /\ UNCHANGED <<card, signedWith, faults>>
    /\ UNCHANGED mainVarsButPc
    /\ UNCHANGED entryVars
    /\ UNCHANGED runVars

NextRecord == DataCallback \/ WriteFileRecord \/ WriteDirectoryEntry

SpecRecord == InitRecord /\ [][NextRecord]_vars

\* The value whose little-endian bytes are the given two or four bytes.
LittleEndian(bytes) == IF Len(bytes) = 2 THEN Wide(0, bytes[1] + 256 * bytes[2]) ELSE Wide(bytes[3] + 256 * bytes[4], bytes[1] + 256 * bytes[2])

\* x is a value of a 16-bit, of a 32-bit unsigned field.
Fits16(x) == x.hi = 0 /\ x.lo \in 0..65535
Fits32(x) == x.hi \in 0..65535 /\ x.lo \in 0..65535

\* The packed records in rec.out.
PackedOfKind(kind) == SelectSeq(rec.out, LAMBDA w : w.kind = kind)

HeaderAttempted == pc \in {"recorded", "listed"} \/ rec.threwIn \in {"header", "directory"}
DirectoryAttempted == pc = "listed" \/ rec.threwIn = "directory"

\* C25: a name length, compressed size, uncompressed size or CRC that
\* does not fit its field of the local header makes WriteFileRecordHeader
\* throw with nothing of the record written; when all fit, the 30 bytes
\* hold them little-endian.  The same for the directory entry and the
\* local header offset in it.
C25_FitsOrThrows ==
    /\ HeaderAttempted =>
          IF Fits16(rec.nameSize) /\ Fits32(rec.compressedSize) /\ Fits32(rec.uncompressedSize) /\ Fits32(rec.crc32)
          THEN /\ Len(PackedOfKind("lfh")) = 1
               /\ LET b == PackedOfKind("lfh")[1].bytes
                  IN  /\ Len(b) = 30
                      /\ LittleEndian(SubSeq(b, 15, 18)) = rec.crc32
                      /\ LittleEndian(SubSeq(b, 19, 22)) = rec.compressedSize
                      /\ LittleEndian(SubSeq(b, 23, 26)) = rec.uncompressedSize
                      /\ LittleEndian(SubSeq(b, 27, 28)) = rec.nameSize
          ELSE /\ rec.threwIn = "header"
               /\ rec.out = <<>>
    /\ DirectoryAttempted =>
          IF Fits32(rec.offset)
          THEN /\ Len(PackedOfKind("cde")) = 1
               /\ LET b == PackedOfKind("cde")[1].bytes
                  IN  /\ Len(b) = 46
                      /\ LittleEndian(SubSeq(b, 17, 20)) = rec.crc32
                      /\ LittleEndian(SubSeq(b, 21, 24)) = rec.compressedSize
                      /\ LittleEndian(SubSeq(b, 25, 28)) = rec.uncompressedSize
                      /\ LittleEndian(SubSeq(b, 29, 30)) = rec.nameSize
                      /\ LittleEndian(SubSeq(b, 43, 46)) = rec.offset
          ELSE /\ rec.threwIn = "directory"
               /\ PackedOfKind("cde") = <<>>
               /\ Len(rec.out) = 3

\* The local header was written with a name of 65535 bytes and sizes of
\* 2^32 - 1; the directory entry was refused for the offset 2^32.
C25_Witness ==
    /\ rec.threwIn = "directory"
    /\ rec.nameSize = Wide(0, 65535)
    /\ rec.compressedSize = Wide(65535, 65535)
    /\ rec.offset = Wide(65536, 0)
    /\ Len(PackedOfKind("lfh")) = 1

\* C24: when the data callback throws, or the packing of the local header
\* throws, the sink of the archive has been given nothing by this entry.
C24_FailedEntryWritesNothing ==
    rec.threwIn \in {"callback", "header"} => rec.out = <<>>

\* The header of an entry whose data were produced was refused for its
\* name of 65536 bytes.
C24_Witness ==
    /\ rec.threwIn = "header"
    /\ rec.nameSize = Wide(1, 0)
    /\ pc = "threw"

\* The data callback of an entry threw.
C24_WitnessCallback ==
    /\ rec.threwIn = "callback"
    /\ pc = "threw"

\* ------------------------------------------------------------------ phases
\* The order of the phases of one run of main and WriteAppx.
PhaseRank(p) ==
    CASE p = "main" -> 0
      [] p = "payload" -> 1
      [] p = "manifest" -> 2
      [] p = "blockmap" -> 3
      [] p = "contenttypes" -> 4
      [] OTHER -> 5

====
